---- MODULE Spec2Model ----
(***************************************************************************)
(* State-machine model of toyredis' in-memory object layer and server:     *)
(*   Dict / HashTable  (src/src/ds/dict.rs)                                *)
(*   Skiplist          (src/src/ds/skiplist/skiplist.rs)                   *)
(*   ZipList           (src/src/ds/ziplist.rs)                             *)
(*   SDS (DynString)   (src/src/ds/perfstr/sds.rs)                         *)
(*   Frame, Connection (src/src/frame.rs, src/src/connection/conn.rs)      *)
(*   server tasks      (src/src/main.rs)                                   *)
(* Option<T> values are modelled as sequences: None is <<>>, Some(x) is    *)
(* <<x>>.  Vec indexes are 0-based in the source and 1-based here, so      *)
(* slots[idx] of the source is slots[idx + 1] below.                       *)
(***************************************************************************)
EXTENDS Integers, Sequences, FiniteSets, TLC

VARIABLES
    hasher,     \* which BuildHasher the Dict was built with
    dict,       \* the Dict: main_table, back_table, rehash_idx
    dstatus,    \* "ok", or "panic" once a Dict call has aborted
    dlast,      \* the last Dict call: operation, arguments, result
    shadow,     \* reference map: key -> Option<value> (history of the calls)
    calls,      \* Dict calls made since the current rehash started
    sl,         \* the Skiplist and its nodes
    sstatus,    \* "ok", "wrapped", or "panic" / "ub" once a call has crashed
    slast,      \* the last Skiplist call: operation, arguments, result
    present,    \* reference set: the (score, member) pairs put in and not taken out
    zl,         \* the ZipList: its byte buffer
    zstatus,    \* "ok", or "panic" once a ZipList call has aborted
    zlast,      \* the last ZipList call: operation, result
    zshadow,    \* reference list: the values pushed, in order
    sds,        \* two SDS values: cur_len, free, data
    sdsstatus,  \* "ok", or "panic" once an SDS call has aborted
    sdslast,    \* the last SDS call: operation, which string, bytes given
    sdsval,     \* reference: the bytes each string was given, concatenated
    sdscalls,   \* appends made to each string since it was last created
    conn,       \* one Connection: its buffer, the socket, where read_frame stands
    srv         \* the server: the shared db and its mutex, each task's position

dictVars == <<hasher, dict, dstatus, dlast, shadow, calls>>

skipVars == <<sl, sstatus, slast, present>>

zipVars == <<zl, zstatus, zlast, zshadow>>

sdsVars == <<sds, sdsstatus, sdslast, sdsval, sdscalls>>

netVars == <<conn, srv>>

otherThanDict == <<skipVars, zipVars, sdsVars, netVars>>

otherThanSkiplist == <<dictVars, zipVars, sdsVars, netVars>>

otherThanZipList == <<dictVars, skipVars, sdsVars, netVars>>

otherThanSds == <<dictVars, skipVars, zipVars, netVars>>

otherThanConn == <<dictVars, skipVars, zipVars, sdsVars, srv>>

otherThanSrv == <<dictVars, skipVars, zipVars, sdsVars, conn>>

vars ==
    <<hasher, dict, dstatus, dlast, shadow, calls, sl, sstatus, slast, present,
      zl, zstatus, zlast, zshadow, sds, sdsstatus, sdslast, sdsval, sdscalls,
      conn, srv>>

None == <<>>

Some(x) == <<x>>

(***************************************************************************)
(* Bounds of the model.                                                    *)
(***************************************************************************)
\* keys of the free-running Dict specification are 0 .. NumKeys - 1
NumKeys == 4

\* keys of the growth specification are inserted in the order 0, 1, 2, ...
NumGrowKeys == 33

DictValues == {"v1", "v2"}

Keys == 0 .. (NumKeys - 1)

(***************************************************************************)
(* HashTable                                                               *)
(***************************************************************************)
Pow2(n) == 2 ^ n

MIN_EXP == 2

\* the loop of compute_exp: the first i in MIN_EXP .. size - 1 with
\* 1 << i >= size, and 64 when the range is exhausted
RECURSIVE exp_from(_, _)
exp_from(i, size) ==
    IF i >= size THEN 64
    ELSE IF Pow2(i) >= size THEN i
    ELSE exp_from(i + 1, size)

\* HashTable::compute_exp: -1 stands for the failed assert!(size <= 63)
compute_exp(size) == IF size > 63 THEN -1 ELSE exp_from(MIN_EXP, size)

with_exp(e) ==
    IF e = -1 \/ e = 64 THEN None
    ELSE Some([slots |-> [i \in 1 .. Pow2(e) |-> <<>>],
               cnt |-> 0,
               slot_cnt_exp |-> e])

\* HashTable::with_capacity_and_hasher: None when the construction panics
\* (the assert of compute_exp, or the shift 1u64 << 64)
with_capacity_and_hasher(size) == with_exp(compute_exp(size))

slots_cnt(t) == Pow2(t.slot_cnt_exp)

need_expand(t) == t.cnt >= slots_cnt(t)

\* the hashers the model builds a Dict with: 1 is the tests' DebugHasher
\* (the key's first byte), 2 sends every key to the last slot of each table,
\* 3 pairs the keys up
NumHashers == 3

gen_hash(h, key) ==
    CASE h = 1 -> key
      [] h = 2 -> 255
      [] OTHER -> key \div 2

\* the remain! macro: val & ((1 << exp) - 1)
remain(val, exp) == val % Pow2(exp)

slot_of(h, t, key) == remain(gen_hash(h, key), t.slot_cnt_exp) + 1

\* position of key in a chain (the walk along next), 0 when absent
RECURSIVE chain_index(_, _, _)
chain_index(chain, key, i) ==
    IF i > Len(chain) THEN 0
    ELSE IF chain[i].k = key THEN i
    ELSE chain_index(chain, key, i + 1)

ht_get_at(chain, i) == IF i = 0 THEN None ELSE Some(chain[i].v)

ht_get_in(chain, key) == ht_get_at(chain, chain_index(chain, key, 1))

\* HashTable::get
ht_get(h, t, key) == ht_get_in(t.slots[slot_of(h, t, key)], key)

ht_insert_at(t, s, i, key, v) ==
    IF i = 0
    THEN [t |-> [t EXCEPT !.slots[s] = Append(@, [k |-> key, v |-> v]),
                          !.cnt = @ + 1],
          old |-> None]
    ELSE [t |-> [t EXCEPT !.slots[s][i].v = v],
          old |-> Some(t.slots[s][i].v)]

ht_insert_in(t, s, key, v) ==
    ht_insert_at(t, s, chain_index(t.slots[s], key, 1), key, v)

\* HashTable::insert: the new table and the replaced value
ht_insert(h, t, key, v) == ht_insert_in(t, slot_of(h, t, key), key, v)

RemoveAt(chain, i) ==
    [j \in 1 .. (Len(chain) - 1) |-> IF j < i THEN chain[j] ELSE chain[j + 1]]

ht_remove_at(t, s, i) ==
    IF i = 0 THEN [t |-> t, old |-> None]
    ELSE [t |-> [t EXCEPT !.slots[s] = RemoveAt(@, i), !.cnt = @ - 1],
          old |-> Some(t.slots[s][i].v)]

ht_remove_in(t, s, key) == ht_remove_at(t, s, chain_index(t.slots[s], key, 1))

\* HashTable::remove: the new table and the removed value
ht_remove(h, t, key) == ht_remove_in(t, slot_of(h, t, key), key)

(***************************************************************************)
(* Dict                                                                    *)
(***************************************************************************)
\* Dict::new_with_hasher
NewDict ==
    [main_table |-> with_capacity_and_hasher(4)[1],
     back_table |-> None,
     rehash_idx |-> None]

is_rehashing(d) == d.rehash_idx # None

\* start_rehashing without line 51 (self.rehash_idx = Some(0))
start_with_no_cursor(d, nt) ==
    IF nt = None THEN [d |-> d, panic |-> TRUE]
    ELSE [d |-> [d EXCEPT !.back_table = nt], panic |-> FALSE]

start_with(d, nt) ==
    IF nt = None THEN [d |-> d, panic |-> TRUE]
    ELSE [d |-> [d EXCEPT !.back_table = nt, !.rehash_idx = Some(0)],
          panic |-> FALSE]

\* start_rehashing with a back table of main's own size
start_rehashing_same_size(d) ==
    IF is_rehashing(d) THEN [d |-> d, panic |-> FALSE]
    ELSE start_with(d, with_capacity_and_hasher(slots_cnt(d.main_table)))

\* Dict::start_rehashing: the new Dict, and whether the allocation panicked
start_rehashing(d) ==
    IF is_rehashing(d) THEN [d |-> d, panic |-> FALSE]
    ELSE start_with(d, with_capacity_and_hasher(2 * slots_cnt(d.main_table)))

\* migrate_node without line 77 (self.main_table.cnt -= 1)
migrate_node_keeps_cnt(d, ins) == [d EXCEPT !.back_table = Some(ins.t)]

\* migrate_node without line 76 (back_table.insert(key, value))
migrate_node_drops_node(d, ins) == [d EXCEPT !.main_table.cnt = @ - 1]

\* one node of the chain moves: back_table.insert(key, value), main cnt -= 1
migrate_node(d, ins) ==
    [d EXCEPT !.back_table = Some(ins.t), !.main_table.cnt = @ - 1]

\* the loop "match cursor" of try_rehash_step: every node of the chain is
\* inserted into back_table and main_table.cnt drops by one per node
RECURSIVE MigrateChain(_, _, _)
MigrateChain(h, d, chain) ==
    IF chain = <<>> THEN d
    ELSE MigrateChain(h,
             migrate_node(d, ht_insert(h, d.back_table[1],
                                       Head(chain).k, Head(chain).v)),
             Tail(chain))

\* migrate_slot without line 81 (self.main_table.slots[idx] = None)
migrate_slot_keeps_chain(h, d, idx) ==
    MigrateChain(h, d, d.main_table.slots[idx + 1])

\* self.main_table.slots[idx] = None, after the chain has moved
migrate_slot(h, d, idx) ==
    [MigrateChain(h, d, d.main_table.slots[idx + 1])
        EXCEPT !.main_table.slots[idx + 1] = <<>>]

\* the slot bound of try_rehash_step (line 62)
max_slots_idx_to_check(d, step, start_idx) ==
    IF 10 * step + start_idx >= slots_cnt(d.main_table) - 1
    THEN 10 * step + start_idx
    ELSE slots_cnt(d.main_table) - 1

\* the for loop of try_rehash_step from slot idx on: the Dict, the last slot
\* index visited, and whether slots[idx] was indexed out of bounds
RECURSIVE RehashLoop(_, _, _, _, _, _)
RECURSIVE AfterSlot(_, _, _, _, _)
RehashLoop(h, d, idx, step, max, latest) ==
    IF idx > max THEN [d |-> d, latest_idx |-> latest, panic |-> FALSE]
    ELSE IF idx >= Len(d.main_table.slots)
    THEN [d |-> d, latest_idx |-> idx, panic |-> TRUE]
    ELSE IF d.main_table.slots[idx + 1] = <<>>
    THEN RehashLoop(h, d, idx + 1, step, max, idx)
    ELSE AfterSlot(h, migrate_slot(h, d, idx), idx, step - 1, max)

\* AfterSlot without the test of step: the loop goes on while main has nodes
after_slot_ignores_step(h, d, idx, step, max) ==
    IF d.main_table.cnt = 0
    THEN [d |-> d, latest_idx |-> idx, panic |-> FALSE]
    ELSE RehashLoop(h, d, idx + 1, step, max, idx)

\* step -= 1; if step <= 0 || self.main_table.cnt == 0 { break }
AfterSlot(h, d, idx, step, max) ==
    IF step <= 0 \/ d.main_table.cnt = 0
    THEN [d |-> d, latest_idx |-> idx, panic |-> FALSE]
    ELSE RehashLoop(h, d, idx + 1, step, max, idx)

\* a cursor two slots past the last slot visited
next_rehash_idx_skips(latest_idx) == Some(latest_idx + 2)

\* what try_rehash_step stores as the new cursor (line 95)
next_rehash_idx(latest_idx) == Some(latest_idx)

\* lines 88-95 of try_rehash_step, after the loop
finish_step(r, start_idx) ==
    IF r.panic
    THEN [d |-> r.d, panic |-> TRUE, visited |-> r.latest_idx - start_idx]
    ELSE IF r.d.main_table.cnt = 0 \/ r.latest_idx >= slots_cnt(r.d.main_table)
    THEN [d |-> [main_table |-> r.d.back_table[1],
                 back_table |-> None,
                 rehash_idx |-> None],
          panic |-> FALSE,
          visited |-> r.latest_idx - start_idx + 1]
    ELSE [d |-> [r.d EXCEPT !.rehash_idx = next_rehash_idx(r.latest_idx)],
          panic |-> FALSE,
          visited |-> r.latest_idx - start_idx + 1]

step_from(h, d, step, start_idx) ==
    finish_step(RehashLoop(h, d, start_idx, step,
                           max_slots_idx_to_check(d, step, start_idx), start_idx),
                start_idx)

\* Dict::try_rehash_step: the Dict, whether the call panicked, and the number
\* of main_table slots the loop visited
try_rehash_step(h, d, step) ==
    IF ~is_rehashing(d) THEN [d |-> d, panic |-> FALSE, visited |-> 0]
    ELSE step_from(h, d, step, d.rehash_idx[1])

\* Dict::value_cnt
value_cnt(d) ==
    d.main_table.cnt + (IF d.back_table # None THEN d.back_table[1].cnt ELSE 0)

Aborted(st) == [d |-> st.d, ret |-> None, panic |-> TRUE, visited |-> st.visited]

\* the rehashing branch without its main_table.remove
insert_rehashing_keeps_main(d, rm, ins, visited) ==
    [d |-> [d EXCEPT !.back_table = Some(ins.t)],
     ret |-> IF ins.old # None THEN ins.old ELSE rm.old,
     panic |-> FALSE, visited |-> visited]

\* lines 110-120: the key leaves main_table and enters back_table
insert_rehashing(d, rm, ins, visited) ==
    [d |-> [d EXCEPT !.main_table = rm.t, !.back_table = Some(ins.t)],
     ret |-> IF ins.old # None THEN ins.old ELSE rm.old,
     panic |-> FALSE, visited |-> visited]

insert_expand(sr, old, visited) ==
    [d |-> sr.d, ret |-> old, panic |-> sr.panic, visited |-> visited]

\* the stable branch without lines 126-128 (need_expand, start_rehashing)
insert_stable_never_expands(d, ins, visited) ==
    [d |-> [d EXCEPT !.main_table = ins.t], ret |-> ins.old,
     panic |-> FALSE, visited |-> visited]

\* lines 122-129: insert into main_table, then perhaps start a rehash
insert_stable(d, ins, visited) ==
    IF ins.old = None /\ need_expand(ins.t)
    THEN insert_expand(start_rehashing([d EXCEPT !.main_table = ins.t]),
                       ins.old, visited)
    ELSE [d |-> [d EXCEPT !.main_table = ins.t], ret |-> ins.old,
          panic |-> FALSE, visited |-> visited]

insert_after_step(h, st, key, v) ==
    IF st.panic THEN Aborted(st)
    ELSE IF is_rehashing(st.d)
    THEN insert_rehashing(st.d, ht_remove(h, st.d.main_table, key),
                          ht_insert(h, st.d.back_table[1], key, v), st.visited)
    ELSE insert_stable(st.d, ht_insert(h, st.d.main_table, key, v), st.visited)

\* Dict::insert: the Dict, the returned Option, panic and slots visited
dict_insert(h, d, key, v) == insert_after_step(h, try_rehash_step(h, d, 1), key, v)

remove_from_main(d, rm, visited) ==
    [d |-> [d EXCEPT !.main_table = rm.t], ret |-> rm.old,
     panic |-> FALSE, visited |-> visited]

remove_from_back(h, d, rb, key, visited) ==
    IF rb.old # None
    THEN [d |-> [d EXCEPT !.back_table = Some(rb.t)], ret |-> rb.old,
          panic |-> FALSE, visited |-> visited]
    ELSE remove_from_main(d, ht_remove(h, d.main_table, key), visited)

remove_after_step(h, st, key) ==
    IF st.panic THEN Aborted(st)
    ELSE IF st.d.back_table = None
    THEN remove_from_main(st.d, ht_remove(h, st.d.main_table, key), st.visited)
    ELSE remove_from_back(h, st.d, ht_remove(h, st.d.back_table[1], key),
                          key, st.visited)

\* Dict::remove
dict_remove(h, d, key) == remove_after_step(h, try_rehash_step(h, d, 1), key)

or_else(inBack, inMain) == IF inBack # None THEN inBack ELSE inMain

\* the lookup order of Dict::get after its rehash step (lines 157-159)
dict_lookup(h, d, key) ==
    IF d.back_table = None THEN ht_get(h, d.main_table, key)
    ELSE or_else(ht_get(h, d.back_table[1], key), ht_get(h, d.main_table, key))

get_after_step(h, st, key) ==
    IF st.panic THEN Aborted(st)
    ELSE [d |-> st.d, ret |-> dict_lookup(h, st.d, key),
          panic |-> FALSE, visited |-> st.visited]

\* Dict::get
dict_get(h, d, key) ==
    IF value_cnt(d) = 0
    THEN [d |-> d, ret |-> None, panic |-> FALSE, visited |-> 0]
    ELSE get_after_step(h, try_rehash_step(h, d, 1), key)

(***************************************************************************)
(* The Dict as a state machine: one action per public operation.           *)
(***************************************************************************)
NoCall == [op |-> "new", key |-> 0, ret |-> None, visited |-> 0,
           slots |-> 4, was_rehashing |-> FALSE]

DictInit ==
    /\ hasher \in 1 .. NumHashers
    /\ dict = NewDict
    /\ dstatus = "ok"
    /\ dlast = NoCall
    /\ shadow = [k \in 0 .. (NumGrowKeys - 1) |-> None]
    /\ calls = 0

\* a call returns r: the Dict it leaves, and the bookkeeping of the model
Record(opname, key, r, newShadow) ==
    /\ dict' = r.d
    /\ dstatus' = IF r.panic THEN "panic" ELSE "ok"
    /\ dlast' = [op |-> opname, key |-> key, ret |-> r.ret, visited |-> r.visited,
                 slots |-> slots_cnt(dict.main_table),
                 was_rehashing |-> is_rehashing(dict)]
    /\ calls' = IF is_rehashing(dict) THEN calls + 1 ELSE 0
    /\ shadow' = IF r.panic THEN shadow ELSE newShadow
    /\ UNCHANGED <<hasher, otherThanDict>>

DictInsert(key, v) ==
    /\ dstatus = "ok"
    /\ Record("insert", key, dict_insert(hasher, dict, key, v),
              [shadow EXCEPT ![key] = Some(v)])

DictRemove(key) ==
    /\ dstatus = "ok"
    /\ Record("remove", key, dict_remove(hasher, dict, key),
              [shadow EXCEPT ![key] = None])

DictGet(key) ==
    /\ dstatus = "ok"
    /\ Record("get", key, dict_get(hasher, dict, key), shadow)

\* the Dict as constructed, with the test hasher
DictIdle ==
    /\ hasher = 1
    /\ dict = NewDict
    /\ dstatus = "ok"
    /\ dlast = NoCall
    /\ shadow = [k \in 0 .. (NumGrowKeys - 1) |-> None]
    /\ calls = 0

(***************************************************************************)
(* Skiplist                                                                *)
(* The nodes live in heap, a sequence indexed by address; a raw pointer is *)
(* an address, Null is 0.  Box::from_raw(p) marks heap[p] freed and the    *)
(* address is never handed out again.  A Skiplist value S carries the      *)
(* fields of the struct, the heap, and the outcome of the running call:    *)
(*   err  "ok", "panic" (a Vec index out of bounds) or "ub" (a null or     *)
(*        freed pointer was dereferenced: undefined behaviour, after which *)
(*        nothing is known about the call's result);                       *)
(*   ovf  a usize subtraction went below zero: a panic when the build      *)
(*        checks overflow, a wrapped value (kept here as the negative      *)
(*        number) when it does not;                                        *)
(*   ret  what the call returns: node for do_insert, flag for remove,      *)
(*        count for clear.                                                 *)
(* Scores are integers (f64 NaN is not modelled).                          *)
(***************************************************************************)
Null == 0

\* Node::new
NewNode(data, score, level) ==
    [score |-> score, data |-> data,
     levels |-> [i \in 1 .. level |-> Null],
     spans |-> [i \in 1 .. level |-> 0],
     backward |-> Null, freed |-> FALSE]

NoReturn == [node |-> None, flag |-> FALSE, count |-> 0, items |-> <<>>]

\* Skiplist::new
NewSkiplist ==
    [level_links |-> <<>>, level_spans |-> <<>>, level |-> 0, length |-> 0,
     heap |-> <<>>, err |-> "ok", ovf |-> FALSE, ret |-> NoReturn]

\* Skiplist::cmp
cmp(ls, ld, rs, rd) ==
    IF ls < rs \/ (ls = rs /\ ld < rd) THEN "Less"
    ELSE IF ls = rs /\ ld = rd THEN "Equal"
    ELSE "Greater"

\* impl PartialOrd for Node: *a < *b and *a > *b
node_lt(S, a, b) ==
    cmp(S.heap[a].score, S.heap[a].data, S.heap[b].score, S.heap[b].data) = "Less"

node_gt(S, a, b) ==
    cmp(S.heap[a].score, S.heap[a].data, S.heap[b].score, S.heap[b].data) = "Greater"

Fail(S, e) == [S EXCEPT !.err = e]

ReturnsNode(S, r) == [S EXCEPT !.ret = [NoReturn EXCEPT !.node = r]]

ReturnsFlag(S, b) == [S EXCEPT !.ret = [NoReturn EXCEPT !.flag = b]]

ReturnsCount(S, c) == [S EXCEPT !.ret = [NoReturn EXCEPT !.count = c]]

\* reading through p is defined only when p points to a node not yet freed
dangling(S, p) == p = Null \/ S.heap[p].freed

height(S, p) == Len(S.heap[p].levels)

\* if slow.is_null() { self.level_links[lc] } else { (*slow).levels[lc] }
link_of(S, slow, lc) ==
    IF slow = Null THEN S.level_links[lc + 1] ELSE S.heap[slow].levels[lc + 1]

set_link(S, slow, lc, p) ==
    IF slow = Null THEN [S EXCEPT !.level_links[lc + 1] = p]
    ELSE [S EXCEPT !.heap[slow].levels[lc + 1] = p]

span_of(S, slow, lc) ==
    IF slow = Null THEN S.level_spans[lc + 1] ELSE S.heap[slow].spans[lc + 1]

set_span(S, slow, lc, v) ==
    IF slow = Null THEN [S EXCEPT !.level_spans[lc + 1] = v]
    ELSE [S EXCEPT !.heap[slow].spans[lc + 1] = v]

\* a usize subtraction: the difference, flagged when it went below zero
sub_span(S, slow, lc, a, b) ==
    IF a - b < 0 THEN [set_span(S, slow, lc, a - b) EXCEPT !.ovf = TRUE]
    ELSE set_span(S, slow, lc, a - b)

set_backward(S, p, q) == [S EXCEPT !.heap[p].backward = q]

(* ------------------------------ do_insert ------------------------------ *)
\* lines 163-170: the head gets a link to the new node for every new level
push_levels(S, n, level) ==
    IF level <= S.level THEN S
    ELSE [S EXCEPT
            !.level_links = @ \o [i \in 1 .. (level - S.level) |-> n],
            !.level_spans = @ \o [i \in 1 .. (level - S.level) |-> S.length]]

\* lines 243-249 and 215-219: the new node's backward link at level 0
ins_backward(S, n, lc, slow) ==
    IF lc = 0 /\ slow # Null THEN set_backward(S, n, slow) ELSE S

\* lines 327-331
finish_insert(S, n) ==
    ReturnsNode([S EXCEPT !.length = @ + 1,
                          !.level = IF height(S, n) > @ THEN height(S, n) ELSE @],
                Some(n))

RECURSIVE upper_spans(_, _, _)
RECURSIVE span3_walk(_, _, _, _, _)
\* lines 293-326 ('out3): the levels above the new node's height
upper_spans(S, n, lc) ==
    IF S.err # "ok" THEN S
    ELSE IF lc >= S.level THEN finish_insert(S, n)
    ELSE span3_walk(S, n, lc, Null, S.level_links[lc + 1])

span3_walk(S, n, lc, slow, next) ==
    IF next = Null
    THEN upper_spans(set_span(S, slow, lc, span_of(S, slow, lc) + 1), n, lc + 1)
    ELSE IF dangling(S, next) THEN Fail(S, "ub")
    ELSE IF node_lt(S, n, next)
    THEN upper_spans(set_span(S, slow, lc, span_of(S, slow, lc) + 1), n, lc + 1)
    ELSE span3_walk(S, n, lc, next, S.heap[next].levels[lc + 1])

\* lines 259-268: nodes between slow and the new node, counted backward;
\* -1 when the walk reads through a freed node
RECURSIVE back_count(_, _, _, _)
back_count(S, pre, slow, c) ==
    IF pre = Null \/ pre = slow THEN c
    ELSE IF dangling(S, pre) THEN -1
    ELSE back_count(S, S.heap[pre].backward, slow, c + 1)

RECURSIVE fix_spans(_, _, _)
RECURSIVE span2_walk(_, _, _, _, _, _)
\* lines 269-280
span2_set(S, n, lc, slow, slow_span, span_before) ==
    IF span_before < 0 THEN Fail(S, "ub")
    ELSE fix_spans(set_span(sub_span(S, n, lc, slow_span, span_before),
                            slow, lc, span_before),
                   n, lc + 1)

\* lines 252-291 ('out2): the spans at the levels of the new node
fix_spans(S, n, lc) ==
    IF S.err # "ok" THEN S
    ELSE IF lc >= height(S, n) THEN upper_spans(S, n, height(S, n))
    ELSE span2_walk(S, n, lc, Null, S.level_spans[lc + 1], S.level_links[lc + 1])

span2_walk(S, n, lc, slow, slow_span, next) ==
    IF next = n
    THEN span2_set(S, n, lc, slow, slow_span,
                   back_count(S, S.heap[n].backward, slow, 0))
    ELSE IF dangling(S, next) THEN Fail(S, "ub")
    ELSE span2_walk(S, n, lc, next, S.heap[next].spans[lc + 1],
                    S.heap[next].levels[lc + 1])

RECURSIVE ins_level(_, _, _, _)
RECURSIVE ins_walk(_, _, _, _, _)
\* lines 195-221 (Ordering::Less): the new node goes between slow and next
ins_less(S, n, lc, slow, next) ==
    IF lc > 0 THEN ins_level(S, n, lc - 1, slow)
    ELSE fix_spans(ins_backward(set_backward(S, next, n), n, 0, slow), n, 1)

ins_cmp(S, n, lc, slow, next, c) ==
    IF c = "Less"
    THEN ins_less(set_link(set_link(S, n, lc, next), slow, lc, n), n, lc, slow, next)
    ELSE IF c = "Equal" THEN ReturnsNode(S, None)
    ELSE ins_walk(S, n, lc, next, S.heap[next].levels[lc + 1])

\* lines 179-250 ('out): the descent that links the new node
ins_level(S, n, lc, slow) ==
    IF lc < 0 THEN fix_spans(S, n, 1)
    ELSE ins_walk(S, n, lc, slow, link_of(S, slow, lc))

\* lines 187-249: the while loop at one level
ins_walk(S, n, lc, slow, next) ==
    IF next = Null
    THEN ins_level(ins_backward(set_link(S, slow, lc, n), n, lc, slow),
                   n, lc - 1, slow)
    ELSE IF dangling(S, next) THEN Fail(S, "ub")
    ELSE ins_cmp(S, n, lc, slow, next,
                 cmp(S.heap[n].score, S.heap[n].data,
                     S.heap[next].score, S.heap[next].data))

Min(a, b) == IF a <= b THEN a ELSE b

\* lines 171-179, with the new node allocated at address n and pushed
insert_node(S, n, level, old_length, old_level) ==
    IF old_length = 0
    THEN ReturnsNode([S EXCEPT !.length = @ + 1, !.level = level], Some(n))
    ELSE ins_level(S, n, Min(level, old_level) - 1, Null)

alloc(S, node) == [S EXCEPT !.heap = Append(@, node), !.ovf = FALSE, !.ret = NoReturn]

\* Skiplist::do_insert
do_insert(S, data, score, level) ==
    insert_node(push_levels(alloc(S, NewNode(data, score, level)),
                            Len(S.heap) + 1, level),
                Len(S.heap) + 1, level, S.length, S.level)

(* -------------------------------- remove ------------------------------- *)
\* line 519: Box::from_raw(to_remove) is dropped.  The memory of a freed node
\* is never read again without undefined behaviour, so its content is blanked.
free_node(S, p) ==
    [S EXCEPT !.heap[p] = [score |-> 0, data |-> 0, levels |-> <<>>,
                           spans |-> <<>>, backward |-> Null, freed |-> TRUE]]

RECURSIVE rm_upper(_, _, _)
RECURSIVE rm_upper_walk(_, _, _, _, _)
\* lines 496-518: one node fewer under every level above the removed node
rm_upper(S, t, level) ==
    IF S.err # "ok" THEN S
    ELSE IF level >= S.level THEN ReturnsFlag(free_node(S, t), TRUE)
    ELSE rm_upper_walk(S, t, level, Null, S.level_links[level + 1])

rm_upper_walk(S, t, level, slow, next) ==
    IF next = Null
    THEN rm_upper(sub_span(S, slow, level, span_of(S, slow, level), 1), t, level + 1)
    ELSE IF dangling(S, next) THEN Fail(S, "ub")
    ELSE IF node_gt(S, next, t)
    THEN rm_upper(sub_span(S, slow, level, span_of(S, slow, level), 1), t, level + 1)
    ELSE rm_upper_walk(S, t, level, next, S.heap[next].levels[level + 1])

RECURSIVE rm_spans(_, _, _)
RECURSIVE rm_span_walk(_, _, _, _, _)
\* lines 469-495: the removed node's span goes to its predecessor
rm_spans(S, t, level) ==
    IF S.err # "ok" THEN S
    ELSE IF level >= height(S, t) THEN rm_upper(S, t, height(S, t))
    ELSE rm_span_walk(S, t, level, Null, S.level_links[level + 1])

rm_span_walk(S, t, level, slow, next) ==
    IF next = Null
    THEN rm_spans(set_span(S, slow, level,
                           span_of(S, slow, level) + S.heap[t].spans[level + 1]),
                  t, level + 1)
    ELSE IF dangling(S, next) THEN Fail(S, "ub")
    ELSE IF node_gt(S, next, t)
    THEN rm_spans(set_span(S, slow, level,
                           span_of(S, slow, level) + S.heap[t].spans[level + 1]),
                  t, level + 1)
    ELSE rm_span_walk(S, t, level, next, S.heap[next].levels[level + 1])

\* lines 438-446: the successor's backward link, then the length
rm_backward(S, slow, next) ==
    IF slow # Null /\ S.heap[next].levels[1] # Null
    THEN IF dangling(S, S.heap[next].levels[1]) THEN Fail(S, "ub")
         ELSE set_backward(S, S.heap[next].levels[1], slow)
    ELSE S

dec_length(S) == [S EXCEPT !.length = @ - 1]

RECURSIVE rm_level(_, _, _, _, _)
RECURSIVE rm_walk(_, _, _, _, _, _)
\* lines 430-452 (Ordering::Equal), the link already bypassing next
rm_equal(S, score, data, cl, slow, next) ==
    IF cl = 0 THEN rm_spans(dec_length(rm_backward(S, slow, next)), next, 1)
    ELSE rm_level(S, score, data, cl - 1, slow)

rm_cmp(S, score, data, cl, slow, next, c) ==
    IF c = "Less"
    THEN IF cl > 0 THEN rm_level(S, score, data, cl - 1, slow)
         ELSE ReturnsFlag(S, FALSE)
    ELSE IF c = "Equal"
    THEN rm_equal(set_link(S, slow, cl, S.heap[next].levels[cl + 1]),
                  score, data, cl, slow, next)
    ELSE rm_walk(S, score, data, cl, next, S.heap[next].levels[cl + 1])

\* lines 406-462 ('out)
rm_level(S, score, data, cl, slow) ==
    IF cl < 0 THEN ReturnsFlag(S, FALSE)
    ELSE rm_walk(S, score, data, cl, slow, link_of(S, slow, cl))

rm_walk(S, score, data, cl, slow, next) ==
    IF next = Null THEN rm_level(S, score, data, cl - 1, slow)
    ELSE IF dangling(S, next) THEN Fail(S, "ub")
    ELSE rm_cmp(S, score, data, cl, slow, next,
                cmp(score, data, S.heap[next].score, S.heap[next].data))

begin_call(S) == [S EXCEPT !.ovf = FALSE, !.ret = NoReturn]

\* Skiplist::remove
remove(S, score, data) ==
    IF S.length = 0 THEN ReturnsFlag(begin_call(S), FALSE)
    ELSE rm_level(begin_call(S), score, data, S.level - 1, Null)

(* -------------------------------- clear -------------------------------- *)
\* lines 389-397
RECURSIVE clear_walk(_, _, _)
clear_walk(S, p, count) ==
    IF p = Null
    THEN ReturnsCount([S EXCEPT !.level_links = <<>>, !.level_spans = <<>>],
                      count)
    ELSE IF dangling(S, p) THEN Fail(S, "ub")
    ELSE clear_walk(free_node(S, p), S.heap[p].levels[1], count)

\* Skiplist::clear
clear(S) ==
    IF S.length = 0 THEN ReturnsCount(begin_call(S), 0)
    ELSE clear_walk([begin_call(S) EXCEPT !.length = 0, !.level = 0],
                    S.level_links[1], S.length)

(* ---------------------------- do_find, exists -------------------------- *)
RECURSIVE find_level(_, _, _, _, _)
RECURSIVE find_walk(_, _, _, _, _, _)
find_cmp(S, score, data, lc, slow, next, c) ==
    IF c = "Less"
    THEN IF lc > 0 THEN find_level(S, score, data, lc - 1, slow)
         ELSE [err |-> "ok", ret |-> None]
    ELSE IF c = "Equal" THEN [err |-> "ok", ret |-> Some(next)]
    ELSE find_walk(S, score, data, lc, next, S.heap[next].levels[lc + 1])

find_level(S, score, data, lc, slow) ==
    IF lc < 0 THEN [err |-> "ok", ret |-> None]
    ELSE find_walk(S, score, data, lc, slow, link_of(S, slow, lc))

find_walk(S, score, data, lc, slow, next) ==
    IF next = Null THEN find_level(S, score, data, lc - 1, slow)
    ELSE IF dangling(S, next) THEN [err |-> "ub", ret |-> None]
    ELSE find_cmp(S, score, data, lc, slow, next,
                  cmp(score, data, S.heap[next].score, S.heap[next].data))

\* Skiplist::do_find
do_find(S, score, data) ==
    IF S.length = 0 THEN [err |-> "ok", ret |-> None]
    ELSE find_level(S, score, data, S.level - 1, Null)

is_some(r) == [err |-> r.err, ret |-> r.ret # None]

\* Skiplist::exists
exists(S, score, data) == is_some(do_find(S, score, data))

(* ------------------------------ range_count ---------------------------- *)
\* Bound
Bound(bound, exclusive) == [bound |-> bound, exclusive |-> exclusive]

toggle(b) == [b EXCEPT !.exclusive = ~@]

RECURSIVE cnt_level(_, _, _, _, _)
RECURSIVE cnt_walk(_, _, _, _, _, _)
cnt_level(S, up, level, slow, count) ==
    IF level < 0 THEN [err |-> "ok", ret |-> count]
    ELSE cnt_walk(S, up, level, slow, link_of(S, slow, level), count)

cnt_walk(S, up, level, slow, next, count) ==
    IF next = Null THEN cnt_level(S, up, level - 1, slow, count)
    ELSE IF dangling(S, next) THEN [err |-> "ub", ret |-> 0]
    ELSE IF S.heap[next].score > up.bound
            \/ (up.bound = S.heap[next].score /\ up.exclusive)
    THEN cnt_level(S, up, level - 1, slow, count)
    ELSE cnt_walk(S, up, level, next, S.heap[next].levels[level + 1],
                  count + span_of(S, slow, level) + 1)

\* Skiplist::count_element_upto
count_element_upto(S, up) == cnt_level(S, up, S.level - 1, Null, 0)

\* a - b in usize, b the result of a count
usize_sub(a, cb) ==
    [err |-> cb.err, ret |-> a - cb.ret, ovf |-> a - cb.ret < 0]

usize_sub2(ca, cb) ==
    [err |-> IF ca.err # "ok" THEN ca.err ELSE cb.err,
     ret |-> ca.ret - cb.ret, ovf |-> ca.ret - cb.ret < 0]

\* Skiplist::range_count; min and max are None or Some(Bound)
range_count(S, min, max) ==
    IF min = None /\ max = None THEN [err |-> "ok", ret |-> S.length, ovf |-> FALSE]
    ELSE IF min = None THEN usize_sub2(count_element_upto(S, max[1]),
                                       [err |-> "ok", ret |-> 0])
    ELSE IF max = None
    THEN usize_sub(S.length, count_element_upto(S, toggle(min[1])))
    ELSE usize_sub2(count_element_upto(S, max[1]),
                    count_element_upto(S, toggle(min[1])))

(* -------------------------------- do_range ----------------------------- *)
\* usize::MAX, which no list length of the model comes near
USIZE_MAX == 2147483647

RangeItem(S, p) == <<S.heap[p].score, S.heap[p].data, height(S, p)>>

\* lines 631-640: back from the first node found to the first inside min;
\* -1 when the walk reads through a freed node
RECURSIVE back_first(_, _, _, _)
back_first(S, min, pre, first) ==
    IF pre = Null THEN first
    ELSE IF dangling(S, pre) THEN -1
    ELSE IF S.heap[pre].score > min.bound
            \/ (S.heap[pre].score = min.bound /\ ~min.exclusive)
    THEN back_first(S, min, S.heap[pre].backward, pre)
    ELSE first

RECURSIVE first_level(_, _, _, _)
RECURSIVE first_walk(_, _, _, _, _)
\* lines 603-644: the node the result starts from
first_level(S, min, level, slow) ==
    IF level < 0 THEN S.level_links[1]
    ELSE first_walk(S, min, level, slow, link_of(S, slow, level))

first_walk(S, min, level, slow, next) ==
    IF next = Null THEN first_level(S, min, level - 1, slow)
    ELSE IF dangling(S, next) THEN -1
    ELSE IF S.heap[next].score < min.bound
            \/ (S.heap[next].score = min.bound /\ min.exclusive)
    THEN first_walk(S, min, level, next, S.heap[next].levels[level + 1])
    ELSE IF level > 0 THEN first_level(S, min, level - 1, slow)
    ELSE back_first(S, min, S.heap[next].backward, next)

\* lines 601-645
range_first(S, min) ==
    IF min = None THEN S.level_links[1]
    ELSE first_level(S, min[1], S.level - 1, Null)

\* lines 646-670
RECURSIVE collect(_, _, _, _, _, _)
collect(S, max, cursor, offset, limit, result) ==
    IF cursor = Null THEN [err |-> "ok", ret |-> result]
    ELSE IF cursor < 0 \/ dangling(S, cursor) THEN [err |-> "ub", ret |-> result]
    ELSE IF offset > 0
    THEN collect(S, max, S.heap[cursor].levels[1], offset - 1, limit, result)
    ELSE IF limit = 0 THEN [err |-> "ok", ret |-> result]
    ELSE IF max # None
            /\ (S.heap[cursor].score > max[1].bound
                \/ (max[1].exclusive /\ S.heap[cursor].score = max[1].bound))
    THEN [err |-> "ok", ret |-> result]
    ELSE collect(S, max, S.heap[cursor].levels[1], offset, limit - 1,
                 Append(result, RangeItem(S, cursor)))

\* Skiplist::do_range
do_range(S, min, max, offset, limit) ==
    IF S.length = 0 THEN [err |-> "ok", ret |-> <<>>]
    ELSE collect(S, max, range_first(S, min), offset,
                 IF limit = 0 THEN USIZE_MAX ELSE limit, <<>>)

(* ----------------------- the Skiplist state machine -------------------- *)
NumScores == 2
NumMembers == 2
MaxHeight == 2
MaxAllocs == 3
MaxOffset == 1
MaxLimit == 2
MaxRangeAllocs == 2

Scores == 1 .. NumScores
Members == 1 .. NumMembers
Heights == 1 .. MaxHeight
Bounds == {None} \cup {Some(Bound(b, e)) : b \in Scores, e \in BOOLEAN}

NoSkipCall ==
    [op |-> "none", score |-> 0, data |-> 0, level |-> 0, min |-> None,
     max |-> None, offset |-> 0, limit |-> 0, ret |-> NoReturn]

SkipInit ==
    /\ sl = NewSkiplist
    /\ sstatus = "ok"
    /\ slast = NoSkipCall
    /\ present = {}

\* no call has crashed; "wrapped" once a subtraction has wrapped, which
\* happens only in a build without overflow checks
SkipRunning == sstatus \in {"ok", "wrapped"}

\* how a call that computed outcome R can end
Outcomes(R) ==
    IF R.err # "ok" THEN {R.err}
    ELSE IF ~R.ovf THEN {sstatus}
    ELSE IF sstatus = "ok" THEN {"panic", "wrapped"}
    ELSE {"wrapped"}

\* the outcome of a call that does no usize subtraction
no_overflow(r) == [err |-> r.err, ret |-> r.ret, ovf |-> FALSE]

SkipMutate(call, R, newPresent) ==
    /\ sstatus' \in Outcomes(R)
    /\ sl' = R
    /\ slast' = [call EXCEPT !.ret = R.ret]
    /\ present' = newPresent
    /\ UNCHANGED otherThanSkiplist

SkipQuery(call, R, field) ==
    /\ sstatus' \in Outcomes(R)
    /\ slast' = [call EXCEPT !.ret = [NoReturn EXCEPT ![field] = R.ret]]
    /\ UNCHANGED <<sl, present, otherThanSkiplist>>

\* Skiplist::insert, random_level having drawn level
SkipInsert(data, score, level) ==
    /\ SkipRunning
    /\ Len(sl.heap) < MaxAllocs
    /\ SkipMutate([NoSkipCall EXCEPT !.op = "insert", !.score = score,
                                     !.data = data, !.level = level],
                  do_insert(sl, data, score, level),
                  present \cup {<<score, data>>})

SkipRemove(score, data) ==
    /\ SkipRunning
    /\ SkipMutate([NoSkipCall EXCEPT !.op = "remove", !.score = score,
                                     !.data = data],
                  remove(sl, score, data),
                  present \ {<<score, data>>})

SkipClear ==
    /\ SkipRunning
    /\ SkipMutate([NoSkipCall EXCEPT !.op = "clear"], clear(sl), {})

SkipExists(score, data) ==
    /\ SkipRunning
    /\ SkipQuery([NoSkipCall EXCEPT !.op = "exists", !.score = score,
                                    !.data = data],
                 no_overflow(exists(sl, score, data)),
                 "flag")

SkipRangeCount(min, max) ==
    /\ SkipRunning
    /\ SkipQuery([NoSkipCall EXCEPT !.op = "range_count", !.min = min,
                                    !.max = max],
                 range_count(sl, min, max),
                 "count")

SkipRange(min, max, offset, limit) ==
    /\ SkipRunning
    /\ Len(sl.heap) <= MaxRangeAllocs
    /\ SkipQuery([NoSkipCall EXCEPT !.op = "range", !.min = min, !.max = max,
                                    !.offset = offset, !.limit = limit],
                 no_overflow(do_range(sl, min, max, offset, limit)),
                 "items")

SkipUpdate ==
    \/ \E d \in Members, s \in Scores, l \in Heights : SkipInsert(d, s, l)
    \/ \E d \in Members, s \in Scores : SkipRemove(s, d)
    \/ SkipClear

(***************************************************************************)
(* ZipList                                                                 *)
(* The list is its byte buffer, a sequence of numbers 0 .. 255; a slice    *)
(* &buf[off..] is the pair (buf, off).  A function that can panic returns  *)
(* a record with the flag panic.                                           *)
(***************************************************************************)
ZIPLIST_BYTES_OFF == 0
ZIPLIST_TAILOFF_OFF == 4
ZIPLIST_LEN_OFF == 8
ZIPLIST_HEADER_SIZE == 10
ZIPLIST_I16_ENC == 192
ZIPLIST_I32_ENC == 208
ZIPLIST_I64_ENC == 224
ZIPLIST_I24_ENC == 240
ZIPLIST_I8_ENC == 254

Zeros(n) == [i \in 1 .. n |-> 0]

\* byteorder: BigEndian::read_u32 / write_u32 / read_u16 / write_u16 at buf[off..]
read_u32(buf, off) ==
    buf[off + 1] * 16777216 + buf[off + 2] * 65536 + buf[off + 3] * 256 + buf[off + 4]

write_u32(buf, off, v) ==
    [buf EXCEPT ![off + 1] = (v \div 16777216) % 256,
                ![off + 2] = (v \div 65536) % 256,
                ![off + 3] = (v \div 256) % 256,
                ![off + 4] = v % 256]

read_u16(buf, off) == buf[off + 1] * 256 + buf[off + 2]

write_u16(buf, off, v) ==
    [buf EXCEPT ![off + 1] = (v \div 256) % 256, ![off + 2] = v % 256]

(* ------------------------------- Encoding ------------------------------ *)
EncString(sz) == [kind |-> "String", v |-> sz]

EncInteger(i) == [kind |-> "Integer", v |-> i]

is_str(enc) == enc.kind = "String"

\* Encoding::encoding_len; the assert!(sz < 1 << 32) cannot fail for the
\* lengths of the model, and its integers all fit an i32 (the 9-byte i64
\* form is not reached)
encoding_len(enc) ==
    IF is_str(enc)
    THEN IF enc.v < 64 THEN 1 ELSE IF enc.v < 16384 THEN 2 ELSE 5
    ELSE IF enc.v >= 0 /\ enc.v <= 12 THEN 1
    ELSE IF enc.v >= -128 /\ enc.v <= 127 THEN 2
    ELSE IF enc.v >= -32768 /\ enc.v <= 32767 THEN 3
    ELSE IF enc.v >= -8388608 /\ enc.v <= 8388607 THEN 4
    ELSE 5

encoding_len_with_content(enc) ==
    IF is_str(enc) THEN encoding_len(enc) + enc.v ELSE encoding_len(enc)

\* v >> (k * 8) & 0xff
byte_of(v, k) == (v \div (256 ^ k)) % 256

\* encoding_index_str without the tag 0b0100_0000 of the two-byte form
encoding_index_str_untagged(enc, idx) ==
    IF idx = 0 /\ encoding_len(enc) = 5 THEN 128
    ELSE byte_of(enc.v, encoding_len(enc) - idx - 1)

\* Encoding::encoding_index_str, for idx < encoding_len
encoding_index_str(enc, idx) ==
    IF idx = 0 /\ encoding_len(enc) = 5 THEN 128
    ELSE IF idx = 0 /\ encoding_len(enc) = 2
    THEN 64 + byte_of(enc.v, 1)
    ELSE byte_of(enc.v, encoding_len(enc) - idx - 1)

\* i as u8 | 0b1111_0000, for 0 <= i <= 12
immediate_tag(i) == 240 + i

\* Encoding::encoding_index_int, for idx < encoding_len
encoding_index_int(enc, idx) ==
    IF idx = 0
    THEN CASE encoding_len(enc) = 1 -> immediate_tag(enc.v)
           [] encoding_len(enc) = 2 -> ZIPLIST_I8_ENC
           [] encoding_len(enc) = 3 -> ZIPLIST_I16_ENC
           [] encoding_len(enc) = 4 -> ZIPLIST_I24_ENC
           [] encoding_len(enc) = 5 -> ZIPLIST_I32_ENC
    ELSE byte_of(enc.v, encoding_len(enc) - idx - 1)

\* impl IntoIterator for Encoding: the bytes of the encoding in order
encoding_bytes(enc) ==
    [k \in 1 .. encoding_len(enc) |->
        IF is_str(enc) THEN encoding_index_str(enc, k - 1)
        ELSE encoding_index_int(enc, k - 1)]

\* the outcome of a parse: a panic (index out of bounds), an Err, or Ok(enc)
ParsePanic == [panic |-> TRUE, err |-> FALSE, enc |-> EncInteger(0)]

ParseErr == [panic |-> FALSE, err |-> TRUE, enc |-> EncInteger(0)]

ParseOk(enc) == [panic |-> FALSE, err |-> FALSE, enc |-> enc]

\* src[i] of the slice (buf, off) exists
in_src(buf, off, i) == off + i + 1 <= Len(buf)

\* lines 170-175: v = src[0] & 0x3f, then v = v << 8 | src[i] for i in 1..sz
RECURSIVE str_size(_, _, _, _, _)
str_size(buf, off, i, sz, v) ==
    IF i >= sz THEN v
    ELSE str_size(buf, off, i + 1, sz, v * 256 + buf[off + i + 1])

\* Encoding::parse_str_encoding
parse_str_encoding(buf, off) ==
    IF buf[off + 1] < 64 THEN ParseOk(EncString(buf[off + 1] % 64))
    ELSE IF buf[off + 1] < 128
    THEN IF in_src(buf, off, 1)
         THEN ParseOk(EncString(str_size(buf, off, 1, 2, buf[off + 1] % 64)))
         ELSE ParsePanic
    ELSE IF in_src(buf, off, 4)
         THEN ParseOk(EncString(str_size(buf, off, 1, 5, buf[off + 1] % 64)))
         ELSE ParsePanic

\* lines 197-205: sign extension, then v = v << 8 | src[idx + 1]
RECURSIVE int_value(_, _, _, _, _)
int_value(buf, off, idx, sz, v) ==
    IF idx >= sz THEN v
    ELSE int_value(buf, off, idx + 1, sz, v * 256 + buf[off + idx + 2])

\* lines 180-196: the payload size of the tag, 0 for an immediate
int_payload(tag) ==
    CASE tag = ZIPLIST_I8_ENC -> 1
      [] tag = ZIPLIST_I16_ENC -> 2
      [] tag = ZIPLIST_I24_ENC -> 3
      [] tag = ZIPLIST_I32_ENC -> 4
      [] tag = ZIPLIST_I64_ENC -> 8
      [] OTHER -> 0

\* Encoding::parse_int_encoding
parse_int_encoding(buf, off) ==
    IF int_payload(buf[off + 1]) = 0
    THEN IF buf[off + 1] \div 16 # 15 THEN ParseErr
         ELSE IF ~(buf[off + 1] % 16 > 0 /\ buf[off + 1] % 16 < 12) THEN ParseErr
         ELSE ParseOk(EncInteger(buf[off + 1] % 16))
    ELSE IF ~in_src(buf, off, int_payload(buf[off + 1])) THEN ParsePanic
    ELSE ParseOk(EncInteger(int_value(buf, off, 0, int_payload(buf[off + 1]),
                                      IF buf[off + 2] >= 128 THEN -1 ELSE 0)))

\* Encoding::parse on the slice &buf[off..]
encoding_parse(buf, off) ==
    IF ~in_src(buf, off, 0) THEN ParsePanic
    ELSE IF buf[off + 1] >= 192 THEN parse_int_encoding(buf, off)
    ELSE parse_str_encoding(buf, off)

(* ------------------------------- ZipEntry ------------------------------ *)
prevrawlen_size(len) == IF len < 254 THEN 1 ELSE 5

\* ZipEntry::parse_prevrawlen; -1 for a panic (index out of bounds)
parse_prevrawlen(buf, off) ==
    IF ~in_src(buf, off, 0) THEN -1
    ELSE IF buf[off + 1] < 254 THEN buf[off + 1]
    ELSE IF ~in_src(buf, off, 4) THEN -1
    ELSE read_u32(buf, off + 1)

\* lines 306-309 and 341-344: v[0] = 0xfe, then write_u32 over v[0..4]
prevrawlen_bytes(prevrawlen) ==
    IF prevrawlen_size(prevrawlen) = 1 THEN <<prevrawlen % 256>>
    ELSE write_u32(<<254, 0, 0, 0, 0>>, 0, prevrawlen)

NoEntry ==
    [panic |-> TRUE, prevrawlen |-> 0, prevrawlen_size |-> 0,
     encoding |-> EncInteger(0)]

entry_of(prevrawlen, parsed) ==
    IF parsed.panic \/ parsed.err THEN NoEntry
    ELSE [panic |-> FALSE, prevrawlen |-> prevrawlen,
          prevrawlen_size |-> prevrawlen_size(prevrawlen),
          encoding |-> parsed.enc]

\* ZipEntry::parse on &buf[off..]; the unwrap of an Err is a panic
entry_parse(buf, off) ==
    IF parse_prevrawlen(buf, off) < 0 THEN NoEntry
    ELSE entry_of(parse_prevrawlen(buf, off),
                  encoding_parse(buf, off + prevrawlen_size(parse_prevrawlen(buf, off))))

header_size(ze) == ze.prevrawlen_size + encoding_len(ze.encoding)

entry_size(ze) == ze.prevrawlen_size + encoding_len_with_content(ze.encoding)

\* ZipEntry::check_len; -1 for a panic
check_len(buf, off) ==
    IF entry_parse(buf, off).panic THEN -1 ELSE entry_size(entry_parse(buf, off))

\* ZipEntryValue and Option<ZipEntryValue>
NoValue == [kind |-> "None", bytes |-> <<>>, int |-> 0]

Bytes(s) == [kind |-> "Bytes", bytes |-> s, int |-> 0]

IntValue(i) == [kind |-> "Int", bytes |-> <<>>, int |-> i]

\* bytes[from..to] of the slice (buf, off)
slice(buf, off, from, to) == [k \in 1 .. (to - from) |-> buf[off + from + k]]

\* ZipEntry::value on &buf[off..]
entry_value(ze, buf, off) ==
    IF ~is_str(ze.encoding) THEN [panic |-> FALSE, val |-> IntValue(ze.encoding.v)]
    ELSE IF off + header_size(ze) + ze.encoding.v > Len(buf)
    THEN [panic |-> TRUE, val |-> NoValue]
    ELSE [panic |-> FALSE,
          val |-> Bytes(slice(buf, off, header_size(ze),
                              header_size(ze) + ze.encoding.v))]

\* ZipEntry::iter(bytes): prevrawlen, encoding, then bytes[header_size..]
entry_iter(ze, bytes) ==
    prevrawlen_bytes(ze.prevrawlen) \o encoding_bytes(ze.encoding)
      \o (IF is_str(ze.encoding)
          THEN SubSeq(bytes, header_size(ze) + 1, Len(bytes))
          ELSE <<>>)

\* line 347: bytes[self.header_size()..] panics when the slice starts past the end
iter_panics(ze, bytes) == is_str(ze.encoding) /\ header_size(ze) > Len(bytes)

(* ------------------------------- ZipList ------------------------------- *)
\* ZipList::new
NewZipList ==
    write_u32(write_u32(Zeros(ZIPLIST_HEADER_SIZE), ZIPLIST_BYTES_OFF,
                        ZIPLIST_HEADER_SIZE),
              ZIPLIST_TAILOFF_OFF, ZIPLIST_HEADER_SIZE)

tail_offset(buf) == read_u32(buf, ZIPLIST_TAILOFF_OFF)

set_tail_offset(buf, off) == write_u32(buf, ZIPLIST_TAILOFF_OFF, off)

read_entry_cnt(buf) == read_u16(buf, ZIPLIST_LEN_OFF)

set_entry_cnt(buf, len) ==
    write_u16(buf, ZIPLIST_LEN_OFF, IF len >= 65535 THEN 65535 ELSE len)

bytes_size(buf) == read_u32(buf, ZIPLIST_BYTES_OFF)

set_bytes_size(buf, sz) == write_u32(buf, ZIPLIST_BYTES_OFF, sz)

\* Vec::splice(at..at, vec![0u8; n])
splice_zeros(buf, at, n) ==
    SubSeq(buf, 1, at) \o Zeros(n) \o SubSeq(buf, at + 1, Len(buf))

\* line 430: buf[at..].iter_mut().zip(bytes): as many bytes as both have
zip_write(buf, at, bytes) ==
    [k \in 1 .. Len(buf) |->
        IF k > at /\ k - at <= Len(bytes) THEN bytes[k - at] ELSE buf[k]]

ZipPanic(buf) == [panic |-> TRUE, buf |-> buf]

\* lines 431-434
push_header(buf, at, required_len, cnt) ==
    [panic |-> FALSE,
     buf |-> set_entry_cnt(
                 set_tail_offset(
                     set_bytes_size(buf, bytes_size(buf) + required_len), at),
                 cnt + 1)]

\* lines 423-430, the new entry going to offset at
push_entry(buf, ze, content, at, cnt) ==
    IF at > Len(buf) THEN ZipPanic(buf)
    ELSE IF iter_panics(ze, content)
    THEN ZipPanic(splice_zeros(buf, at, entry_size(ze)))
    ELSE push_header(zip_write(splice_zeros(buf, at, entry_size(ze)), at,
                               entry_iter(ze, content)),
                     at, entry_size(ze), cnt)

\* lines 421-428
push_after(buf, encoding, content, at, prevrawlen, cnt) ==
    IF prevrawlen < 0 THEN ZipPanic(buf)
    ELSE push_entry(buf,
                    [panic |-> FALSE, prevrawlen |-> prevrawlen,
                     prevrawlen_size |-> prevrawlen_size(prevrawlen),
                     encoding |-> encoding],
                    content, at + prevrawlen, cnt)

\* ZipList::push_tail
push_tail(buf, encoding, content) ==
    IF read_entry_cnt(buf) > 0
    THEN IF tail_offset(buf) > Len(buf) THEN ZipPanic(buf)
         ELSE push_after(buf, encoding, content, tail_offset(buf),
                         check_len(buf, tail_offset(buf)), read_entry_cnt(buf))
    ELSE push_after(buf, encoding, content, tail_offset(buf), 0, 0)

\* ZipList::push_tail_string
push_tail_string(buf, content) == push_tail(buf, EncString(Len(content)), content)

\* ZipList::push_tail_int
push_tail_int(buf, val) == push_tail(buf, EncInteger(val), <<>>)

\* ZipList::iter().next() and ZipEntry::value of the entry it yields: the
\* iterator starts at the tail offset
read_entry(buf, ze, off) ==
    IF ze.panic THEN [panic |-> TRUE, val |-> NoValue]
    ELSE entry_value(ze, buf, off)

iter_first_value(buf) ==
    IF tail_offset(buf) >= bytes_size(buf) THEN [panic |-> FALSE, val |-> NoValue]
    ELSE IF tail_offset(buf) > Len(buf) THEN [panic |-> TRUE, val |-> NoValue]
    ELSE read_entry(buf, entry_parse(buf, tail_offset(buf)), tail_offset(buf))

\* ZipList::count_entry from offset; -1 for a panic (index out of bounds)
RECURSIVE count_from(_, _, _)
count_from(buf, offset, cnt) ==
    IF offset < ZIPLIST_HEADER_SIZE THEN cnt
    ELSE IF offset > Len(buf) \/ parse_prevrawlen(buf, offset) < 0 THEN -1
    ELSE IF parse_prevrawlen(buf, offset) = 0 THEN cnt + 1
    ELSE IF parse_prevrawlen(buf, offset) > offset THEN -1
    ELSE count_from(buf, offset - parse_prevrawlen(buf, offset), cnt + 1)

count_entry(buf) == count_from(buf, tail_offset(buf), 0)

\* ZipList::get_entry_cnt; -1 for a panic
get_entry_cnt(buf) ==
    IF read_entry_cnt(buf) < 65535 THEN read_entry_cnt(buf) ELSE count_entry(buf)

\* slice::copy_within(from..to, dest)
copy_within_panics(buf, from, to, dest) ==
    from > to \/ to > Len(buf) \/ dest + (to - from) > Len(buf)

copy_within(buf, from, to, dest) ==
    [k \in 1 .. Len(buf) |->
        IF k > dest /\ k <= dest + (to - from) THEN buf[from + (k - dest)]
        ELSE buf[k]]

PopPanic(buf) == [panic |-> TRUE, buf |-> buf, val |-> NoValue]

\* lines 502-510
pop_header(buf, cur_offset, ori_bytes, first_size, val) ==
    IF ori_bytes < first_size THEN PopPanic(buf)
    ELSE IF read_entry_cnt(buf) < 65535
    THEN [panic |-> FALSE,
          buf |-> set_entry_cnt(
                      set_tail_offset(set_bytes_size(buf, ori_bytes - first_size),
                                      cur_offset),
                      read_entry_cnt(buf) - 1),
          val |-> val]
    ELSE IF count_entry(set_tail_offset(buf, cur_offset)) < 0 THEN PopPanic(buf)
    ELSE [panic |-> FALSE,
          buf |-> set_entry_cnt(
                      set_tail_offset(set_bytes_size(buf, ori_bytes - first_size),
                                      cur_offset),
                      count_entry(set_tail_offset(buf, cur_offset))),
          val |-> val]

\* lines 481-501; the result is the buffer and cur_offset after the loop
RECURSIVE pop_walk(_, _, _, _, _, _)
\* lines 485-494: copy_from_slice panics unless both slices have one length
pop_changed(buf, cur_offset, next_off, entry, last_size, ori_bytes) ==
    IF Len(buf) - cur_offset # prevrawlen_size(last_size)
    THEN [panic |-> TRUE, buf |-> buf, cur_offset |-> cur_offset]
    ELSE IF copy_within_panics(buf, next_off + entry.prevrawlen_size,
                               next_off + entry_size(entry),
                               cur_offset + prevrawlen_size(last_size))
    THEN [panic |-> TRUE, buf |-> buf, cur_offset |-> cur_offset]
    ELSE pop_walk(copy_within(zip_write(buf, cur_offset, prevrawlen_bytes(last_size)),
                              next_off + entry.prevrawlen_size,
                              next_off + entry_size(entry),
                              cur_offset + prevrawlen_size(last_size)),
                  cur_offset + prevrawlen_size(last_size)
                    + entry_size(entry) - entry.prevrawlen_size,
                  next_off + entry_size(entry),
                  prevrawlen_size(last_size) + entry_size(entry)
                    - entry.prevrawlen_size,
                  ori_bytes,
                  entry.prevrawlen_size # last_size)

\* lines 496-498
pop_unchanged(buf, cur_offset, next_off, entry, ori_bytes) ==
    IF copy_within_panics(buf, next_off, next_off + entry_size(entry), cur_offset)
    THEN [panic |-> TRUE, buf |-> buf, cur_offset |-> cur_offset]
    ELSE pop_walk(copy_within(buf, next_off, next_off + entry_size(entry),
                              cur_offset),
                  cur_offset + entry_size(entry),
                  next_off + entry_size(entry),
                  entry_size(entry), ori_bytes, FALSE)

pop_walk(buf, cur_offset, next_off, last_size, ori_bytes, prevlen_changed) ==
    IF next_off >= ori_bytes
    THEN [panic |-> FALSE, buf |-> buf, cur_offset |-> cur_offset]
    ELSE IF next_off > Len(buf) \/ entry_parse(buf, next_off).panic
    THEN [panic |-> TRUE, buf |-> buf, cur_offset |-> cur_offset]
    ELSE IF prevlen_changed
    THEN pop_changed(buf, cur_offset, next_off, entry_parse(buf, next_off),
                     last_size, ori_bytes)
    ELSE pop_unchanged(buf, cur_offset, next_off, entry_parse(buf, next_off),
                       ori_bytes)

pop_finish(walked, ori_bytes, first_size, val) ==
    IF walked.panic THEN PopPanic(walked.buf)
    ELSE pop_header(walked.buf, walked.cur_offset, ori_bytes, first_size, val)

\* lines 472-480
pop_first(buf, first, val) ==
    IF first.panic \/ val.panic THEN PopPanic(buf)
    ELSE pop_finish(pop_walk(buf, ZIPLIST_HEADER_SIZE,
                             ZIPLIST_HEADER_SIZE + entry_size(first), 0,
                             bytes_size(buf), TRUE),
                    bytes_size(buf), entry_size(first), val.val)

\* ZipList::pop_front
pop_front(buf) ==
    IF read_entry_cnt(buf) = 0 THEN [panic |-> FALSE, buf |-> buf, val |-> NoValue]
    ELSE pop_first(buf, entry_parse(buf, ZIPLIST_HEADER_SIZE),
                   read_entry(buf, entry_parse(buf, ZIPLIST_HEADER_SIZE),
                              ZIPLIST_HEADER_SIZE))

(* ----------------------- the ZipList state machine --------------------- *)
MaxEntries == 3
MaxBytes == 16450
ContentLens == {0, 1, 2, 3, 63, 64, 254, 16383, 16384}
ContentFirst == {1, 200}
IntValues == {-1, 0, 1, 12, 13, 300}
I32_MIN == -2147483647 - 1
RoundTripInts ==
    {0, 1, 11, 12, 13, -1, 127, 128, -128, -129, -32768, 32767, -32769, 32768,
     -8388608, 8388607, -8388609, 8388608, I32_MIN, 2147483647}

\* the string of len bytes first, first + 1, ... (mod 256)
Content(len, first) == [i \in 1 .. len |-> (first + i - 1) % 256]

NoZipCall == [op |-> "none", ret |-> NoValue]

ZipInit ==
    /\ zl = NewZipList
    /\ zstatus = "ok"
    /\ zlast = NoZipCall
    /\ zshadow = <<>>

ZipPush(opname, r, value) ==
    /\ zl' = r.buf
    /\ zstatus' = IF r.panic THEN "panic" ELSE "ok"
    /\ zlast' = [op |-> opname, ret |-> NoValue]
    /\ zshadow' = Append(zshadow, value)
    /\ UNCHANGED otherThanZipList

ZipPushString(content) ==
    /\ zstatus = "ok"
    /\ Len(zshadow) < MaxEntries
    /\ Len(zl) + Len(content) <= MaxBytes
    /\ ZipPush("push_tail_string", push_tail_string(zl, content), Bytes(content))

ZipPushInt(val) ==
    /\ zstatus = "ok"
    /\ Len(zshadow) < MaxEntries
    /\ ZipPush("push_tail_int", push_tail_int(zl, val), IntValue(val))

ZipRead(r) ==
    /\ zstatus' = IF r.panic THEN "panic" ELSE "ok"
    /\ zlast' = [op |-> "read_tail", ret |-> r.val]
    /\ UNCHANGED <<zl, zshadow, otherThanZipList>>

\* the entry at the tail is read back
ZipReadTail ==
    /\ zstatus = "ok"
    /\ ZipRead(iter_first_value(zl))

\* the inputs of the runs with pop_front: short and long entries (an entry of
\* 254 bytes and more takes a 5-byte prevrawlen in the entry after it)
PopContentLens == {3, 250, 251}
PopInts == {1, 300}
\* pop_front never shortens the Vec: the bytes behind the recorded size are kept
\* and each pop adds to them; a run pops while at most MaxStale bytes are stale
MaxStale == 6

ZipPopFrontResult(r) ==
    /\ zl' = r.buf
    /\ zstatus' = IF r.panic THEN "panic" ELSE "ok"
    /\ zlast' = [op |-> "pop_front", ret |-> r.val]
    /\ zshadow' = IF zshadow = <<>> THEN <<>> ELSE Tail(zshadow)
    /\ UNCHANGED otherThanZipList

ZipPopFront ==
    /\ zstatus = "ok"
    /\ Len(zl) - bytes_size(zl) <= MaxStale
    /\ ZipPopFrontResult(pop_front(zl))

(***************************************************************************)
(* SDS                                                                     *)
(* A Vec<u8> is kept as its runs of equal bytes, <<[b, n], ...>> with      *)
(* n > 0 and no two neighbouring runs of one byte, so that buffers of more *)
(* than a megabyte are values the checker can hold; two Vecs are equal     *)
(* exactly when their runs are.                                            *)
(***************************************************************************)
MAX_PREALLOC == 1048576

Run(b, n) == [b |-> b, n |-> n]

\* the run in front of a Vec
PushRun(run, rest) ==
    IF run.n = 0 THEN rest
    ELSE IF rest # <<>> /\ rest[1].b = run.b
    THEN <<Run(run.b, run.n + rest[1].n)>> \o Tail(rest)
    ELSE <<run>> \o rest

RECURSIVE Runs(_)
Runs(r) == IF r = <<>> THEN <<>> ELSE PushRun(r[1], Runs(Tail(r)))

\* Vec::len
RECURSIVE VecLen(_)
VecLen(r) == IF r = <<>> THEN 0 ELSE r[1].n + VecLen(Tail(r))

\* &v[..k], for k <= v.len()
RECURSIVE Take(_, _)
Take(r, k) ==
    IF k <= 0 \/ r = <<>> THEN <<>>
    ELSE IF r[1].n >= k THEN <<Run(r[1].b, k)>>
    ELSE <<r[1]>> \o Take(Tail(r), k - r[1].n)

\* &v[k..]
RECURSIVE Drop(_, _)
Drop(r, k) ==
    IF r = <<>> \/ k <= 0 THEN r
    ELSE IF r[1].n > k THEN <<Run(r[1].b, r[1].n - k)>> \o Tail(r)
    ELSE Drop(Tail(r), k - r[1].n)

\* SDS::empty
sds_empty == [cur_len |-> 0, free |-> 0, data |-> <<>>]

\* new_size_of doubling whatever the size
new_size_always_doubled(needed) == 2 * needed

\* lines 51-56
new_size_of(needed) ==
    IF 2 * needed <= MAX_PREALLOC THEN 2 * needed ELSE needed + MAX_PREALLOC

\* expand_to with free set to the whole new size
expand_to_all_free(s, size) ==
    [cur_len |-> s.cur_len,
     free |-> size,
     data |-> Runs(Take(s.data, s.cur_len) \o <<Run(0, size - s.cur_len)>>)]

\* lines 58-61: vec![0u8; new_size] with the first cur_len bytes copied in
expand_to(s, size) ==
    [cur_len |-> s.cur_len,
     free |-> size - s.cur_len,
     data |-> Runs(Take(s.data, s.cur_len) \o <<Run(0, size - s.cur_len)>>)]

\* SDS::expand; the slice of line 59 panics when cur_len is past the buffer
expand(s, required_len) ==
    IF required_len <= s.free THEN [panic |-> FALSE, s |-> s]
    ELSE IF s.cur_len > VecLen(s.data) THEN [panic |-> TRUE, s |-> s]
    ELSE [panic |-> FALSE, s |-> expand_to(s, new_size_of(required_len + s.cur_len))]

\* append_into writing the bytes at the start of the buffer
append_at_start(s, bytes) ==
    IF s.cur_len + VecLen(bytes) > VecLen(s.data) \/ s.free < VecLen(bytes)
    THEN [panic |-> TRUE, s |-> s]
    ELSE [panic |-> FALSE,
          s |-> [cur_len |-> s.cur_len + VecLen(bytes),
                 free |-> s.free - VecLen(bytes),
                 data |-> Runs(bytes \o Drop(s.data, VecLen(bytes)))]]

\* lines 72-74: copy_from_slice into data[cur_len..cur_len + len], which
\* panics when the range ends past the buffer; free -= len panics or wraps
\* below zero, and the range check fails first whenever data.len() is
\* cur_len + free
append_into(s, bytes) ==
    IF s.cur_len + VecLen(bytes) > VecLen(s.data) \/ s.free < VecLen(bytes)
    THEN [panic |-> TRUE, s |-> s]
    ELSE [panic |-> FALSE,
          s |-> [cur_len |-> s.cur_len + VecLen(bytes),
                 free |-> s.free - VecLen(bytes),
                 data |-> Runs(Take(s.data, s.cur_len) \o bytes
                                 \o Drop(s.data, s.cur_len + VecLen(bytes)))]]

\* SDS::append
sds_append(s, bytes) ==
    IF expand(s, VecLen(bytes)).panic THEN [panic |-> TRUE, s |-> s]
    ELSE append_into(expand(s, VecLen(bytes)).s, bytes)

\* SDS::new
sds_new(init) == sds_append(sds_empty, init)

\* SDS::clear
sds_clear(s) == sds_empty

\* SDS::len
sds_len(s) == s.cur_len

\* SDS::val, for cur_len <= data.len()
sds_val(s) == Take(s.data, s.cur_len)

\* equality over the whole buffers
sds_eq_whole_buffer(a, b) == a.data = b.data

\* impl PartialEq for SDS
sds_eq(a, b) == sds_val(a) = sds_val(b)

\* impl Hash for SDS: what the hasher is fed, the length prefix of a slice
\* and its bytes
sds_hash(s) == <<s.cur_len, Take(s.data, s.cur_len)>>

(* ------------------------- the SDS state machine ----------------------- *)
Strings == {1, 2}
MaxAppends == 2

\* "a", "\0", "aa" and the empty slice
SmallPieces == {<<>>, <<Run(97, 1)>>, <<Run(0, 1)>>, <<Run(97, 2)>>}

\* slices around half of MAX_PREALLOC and of MAX_PREALLOC itself
BigPieces ==
    {<<Run(1, 1)>>, <<Run(1, 13)>>, <<Run(1, 524287)>>, <<Run(1, 524288)>>,
     <<Run(1, 524289)>>, <<Run(2, MAX_PREALLOC)>>}

NoSdsCall == [op |-> "empty", i |-> 0, n |-> 0]

SdsInit ==
    /\ sds = [i \in Strings |-> sds_empty]
    /\ sdsstatus = "ok"
    /\ sdslast = NoSdsCall
    /\ sdsval = [i \in Strings |-> <<>>]
    /\ sdscalls = [i \in Strings |-> 0]

SdsCall(opname, i, n, r, content, cnt) ==
    /\ sds' = [sds EXCEPT ![i] = r.s]
    /\ sdsstatus' = IF r.panic THEN "panic" ELSE "ok"
    /\ sdslast' = [op |-> opname, i |-> i, n |-> n]
    /\ sdsval' = [sdsval EXCEPT ![i] = content]
    /\ sdscalls' = [sdscalls EXCEPT ![i] = cnt]
    /\ UNCHANGED otherThanSds

SdsNew(i, bytes) ==
    /\ sdsstatus = "ok"
    /\ SdsCall("new", i, VecLen(bytes), sds_new(bytes), bytes, 0)

SdsAppend(i, bytes) ==
    /\ sdsstatus = "ok"
    /\ sdscalls[i] < MaxAppends
    /\ SdsCall("append", i, VecLen(bytes), sds_append(sds[i], bytes),
               Runs(sdsval[i] \o bytes), sdscalls[i] + 1)

SdsClear(i) ==
    /\ sdsstatus = "ok"
    /\ SdsCall("clear", i, 0, [panic |-> FALSE, s |-> sds_clear(sds[i])], <<>>, 0)

(***************************************************************************)
(* Frames (src/src/frame.rs) and Connection (src/src/connection/conn.rs).  *)
(* A byte is a one-character string; a Cursor is the pair (data, pos).     *)
(* Results carry err: "ok", "Incomplete" (Error::Incomplete) or "Other".   *)
(***************************************************************************)
\* writes the peer makes on one connection
MaxSends == 2

Digits == <<"0", "1", "2", "3", "4", "5", "6", "7", "8", "9">>

IsDigit(c) == \E d \in 1 .. 10 : Digits[d] = c

DigitOf(c) == (CHOOSE d \in 1 .. 10 : Digits[d] = c) - 1

RECURSIVE atoi_digits(_, _, _)
atoi_digits(line, i, acc) ==
    IF i > Len(line) \/ ~IsDigit(line[i]) THEN acc
    ELSE atoi_digits(line, i + 1, acc * 10 + DigitOf(line[i]))

\* atoi::<u64>: the leading decimal digits, None when there are none
atoi(line) ==
    IF line = <<>> \/ ~IsDigit(line[1]) THEN None
    ELSE Some(atoi_digits(line, 1, 0))

remaining(data, pos) == Len(data) - pos

get_u8(data, pos) ==
    IF remaining(data, pos) = 0 THEN [err |-> "Incomplete", b |-> "", pos |-> pos]
    ELSE [err |-> "ok", b |-> data[pos + 1], pos |-> pos + 1]

peek_u8(data, pos) ==
    IF remaining(data, pos) = 0 THEN [err |-> "Incomplete", b |-> "", pos |-> pos]
    ELSE [err |-> "ok", b |-> data[pos + 1], pos |-> pos]

\* the loop over start..end has an empty body: no line is ever found
get_line(data, pos) == [err |-> "Incomplete", line |-> <<>>, pos |-> pos]

get_decimal(data, pos) ==
    LET l == get_line(data, pos)
    IN  IF l.err # "ok" THEN [err |-> l.err, n |-> 0, pos |-> l.pos]
        ELSE IF atoi(l.line) = None THEN [err |-> "Other", n |-> 0, pos |-> l.pos]
        ELSE [err |-> "ok", n |-> atoi(l.line)[1], pos |-> l.pos]

skip(data, pos, n) ==
    IF remaining(data, pos) < n THEN [err |-> "Incomplete", pos |-> pos]
    ELSE [err |-> "ok", pos |-> pos + n]

RECURSIVE Frame_check(_, _)
RECURSIVE check_entries(_, _, _)
\* the for loop of the array arm: n nested checks, stopping at the first error
check_entries(data, pos, n) ==
    IF n = 0 THEN [err |-> "ok", pos |-> pos]
    ELSE LET c == Frame_check(data, pos)
         IN  IF c.err # "ok" THEN c ELSE check_entries(data, c.pos, n - 1)

\* Frame::check; the results of both skip calls of the bulk arm are dropped
Frame_check(data, pos) ==
    LET t == get_u8(data, pos)
    IN  IF t.err # "ok" THEN [err |-> t.err, pos |-> t.pos]
        ELSE IF t.b \in {"+", "-"} THEN
            LET l == get_line(data, t.pos) IN [err |-> l.err, pos |-> l.pos]
        ELSE IF t.b = ":" THEN
            LET d == get_decimal(data, t.pos) IN [err |-> d.err, pos |-> d.pos]
        ELSE IF t.b = "$" THEN
            LET p == peek_u8(data, t.pos)
            IN  IF p.err # "ok" THEN [err |-> p.err, pos |-> p.pos]
                ELSE IF p.b = "-" THEN [err |-> "ok", pos |-> skip(data, t.pos, 4).pos]
                ELSE LET d == get_decimal(data, t.pos)
                     IN  IF d.err # "ok" THEN [err |-> d.err, pos |-> d.pos]
                         ELSE [err |-> "ok", pos |-> skip(data, d.pos, d.n + 2).pos]
        ELSE IF t.b = "*" THEN
            LET d == get_decimal(data, t.pos)
            IN  IF d.err # "ok" THEN [err |-> d.err, pos |-> d.pos]
                ELSE check_entries(data, d.pos, d.n)
        ELSE [err |-> "Other", pos |-> t.pos]

NoFrame == [kind |-> "", val |-> <<>>]

FrameResult(e, f, p) == [err |-> e, frame |-> f, pos |-> p]

RECURSIVE Frame_parse(_, _)
RECURSIVE parse_entries(_, _, _, _)
parse_entries(data, pos, n, out) ==
    IF n = 0 THEN FrameResult("ok", [kind |-> "Array", val |-> out], pos)
    ELSE LET f == Frame_parse(data, pos)
         IN  IF f.err # "ok" THEN f
             ELSE parse_entries(data, f.pos, n - 1, Append(out, f.frame))

\* Frame::parse; err "panic" is the unimplemented!() of the last arm
Frame_parse(data, pos) ==
    LET t == get_u8(data, pos)
    IN  IF t.err # "ok" THEN FrameResult(t.err, NoFrame, t.pos)
        ELSE IF t.b \in {"+", "-"} THEN
            LET l == get_line(data, t.pos)
            IN  IF l.err # "ok" THEN FrameResult(l.err, NoFrame, l.pos)
                ELSE FrameResult("ok", [kind |-> IF t.b = "+" THEN "Simple" ELSE "Error",
                                        val |-> l.line], l.pos)
        ELSE IF t.b = ":" THEN
            LET d == get_decimal(data, t.pos)
            IN  IF d.err # "ok" THEN FrameResult(d.err, NoFrame, d.pos)
                ELSE FrameResult("ok", [kind |-> "Integer", val |-> <<d.n>>], d.pos)
        ELSE IF t.b = "$" THEN
            LET p == peek_u8(data, t.pos)
            IN  IF p.err # "ok" THEN FrameResult(p.err, NoFrame, p.pos)
                ELSE IF p.b = "-" THEN
                    LET l == get_line(data, t.pos)
                    IN  IF l.err # "ok" THEN FrameResult(l.err, NoFrame, l.pos)
                        ELSE IF l.line # <<"-", "1">> THEN FrameResult("Other", NoFrame, l.pos)
                        ELSE FrameResult("ok", [kind |-> "Null", val |-> <<>>], l.pos)
                ELSE
                    LET d == get_decimal(data, t.pos)
                    IN  IF d.err # "ok" THEN FrameResult(d.err, NoFrame, d.pos)
                        ELSE IF remaining(data, d.pos) < d.n + 2
                             THEN FrameResult("Incomplete", NoFrame, d.pos)
                        ELSE FrameResult("ok",
                                         [kind |-> "Bulk",
                                          val |-> SubSeq(data, d.pos + 1, d.pos + d.n)],
                                         d.pos + d.n + 2)
        ELSE IF t.b = "*" THEN
            LET d == get_decimal(data, t.pos)
            IN  IF d.err # "ok" THEN FrameResult(d.err, NoFrame, d.pos)
                ELSE parse_entries(data, d.pos, d.n, <<>>)
        ELSE FrameResult("panic", NoFrame, t.pos)

\* Connection::parse_frame: ret "Some" with the frame, "None" when the check
\* says Incomplete, "Err" otherwise; advance(len) moves the local cursor, the
\* connection's buffer keeps its bytes
parse_frame(buffer) ==
    LET c == Frame_check(buffer, 0)
    IN  IF c.err = "ok" THEN
            LET f == Frame_parse(buffer, 0)
            IN  IF f.err = "ok" THEN [ret |-> "Some", frame |-> f.frame, buffer |-> buffer]
                ELSE IF f.err = "panic" THEN [ret |-> "panic", frame |-> NoFrame, buffer |-> buffer]
                ELSE [ret |-> "Err", frame |-> NoFrame, buffer |-> buffer]
        ELSE IF c.err = "Incomplete" THEN [ret |-> "None", frame |-> NoFrame, buffer |-> buffer]
        ELSE [ret |-> "Err", frame |-> NoFrame, buffer |-> buffer]

\* what the peer may put on the wire in one write: whole frames, halves of
\* frames, and a byte that starts no frame
SimpleOk == <<"+", "O", "K", "\r", "\n">>

NullBulk == <<"$", "-", "1", "\r", "\n">>

PeerWrites ==
    {SimpleOk, NullBulk, <<"+", "O">>, <<"K", "\r", "\n">>, <<":", "7", "\r", "\n">>,
     <<"$", "-">>, <<"!">>}

\* how many bytes one read_buf may deliver: up to everything written
ReadSizes == 1 .. (5 * MaxSends)

ConnInit ==
    conn = [buffer |-> <<>>, wire |-> <<>>, sent |-> 0, closed |-> FALSE,
            pc |-> "idle", ret |-> "", frame |-> NoFrame, reads |-> 0]

\* the peer writes to its end of the socket
PeerSend(bytes) ==
    /\ ~conn.closed
    /\ conn.sent < MaxSends
    /\ conn' = [conn EXCEPT !.wire = @ \o bytes, !.sent = @ + 1]
    /\ UNCHANGED otherThanConn

\* the peer closes its end; what it wrote before is still delivered
PeerClose ==
    /\ ~conn.closed
    /\ conn' = [conn EXCEPT !.closed = TRUE]
    /\ UNCHANGED otherThanConn

\* a call of read_frame begins
ReadFrameCall ==
    /\ conn.pc \in {"idle", "returned"}
    /\ conn.ret \in {"", "Some"}
    /\ conn' = [conn EXCEPT !.pc = "parse", !.ret = "", !.frame = NoFrame, !.reads = 0]
    /\ UNCHANGED otherThanConn

\* top of the loop: try to take a frame out of the buffer
ReadFrameParse ==
    /\ conn.pc = "parse"
    /\ LET r == parse_frame(conn.buffer)
       IN  conn' = IF r.ret = "None"
                   THEN [conn EXCEPT !.pc = "read", !.buffer = r.buffer]
                   ELSE [conn EXCEPT !.pc = "returned", !.ret = r.ret,
                                     !.frame = r.frame, !.buffer = r.buffer]
    /\ UNCHANGED otherThanConn

\* stream.read_buf completes with n > 0 bytes of what the peer wrote
ReadFrameRead(n) ==
    /\ conn.pc = "read"
    /\ n \in 1 .. Len(conn.wire)
    /\ conn' = [conn EXCEPT !.buffer = @ \o SubSeq(conn.wire, 1, n),
                            !.wire = SubSeq(@, n + 1, Len(@)),
                            !.pc = "parse", !.reads = @ + 1]
    /\ UNCHANGED otherThanConn

\* stream.read_buf completes with 0: the peer has closed
ReadFrameEof ==
    /\ conn.pc = "read"
    /\ conn.wire = <<>>
    /\ conn.closed
    /\ conn' = [conn EXCEPT !.pc = "returned",
                            !.ret = IF conn.buffer = <<>> THEN "None" ELSE "Err"]
    /\ UNCHANGED otherThanConn

(***************************************************************************)
(* The server (src/src/main.rs): one task per accepted connection, all     *)
(* sharing db, an Arc<Mutex<HashMap<String, Bytes>>>.  A task's pc is the   *)
(* point of process() it stands at; "read_frame" and "write_frame" are the *)
(* two awaits.                                                             *)
(***************************************************************************)
\* requests the server reads, over all its connections
MaxRequests == 3

Tasks == {1, 2}

DbKeys == {"a", "b"}

DbValues == {"x", "y"}

NoReq == [op |-> "", key |-> "", value |-> ""]

Requests ==
    {[op |-> "set", key |-> k, value |-> v] : k \in DbKeys, v \in DbValues}
    \cup {[op |-> "get", key |-> k, value |-> ""] : k \in DbKeys}
    \cup {[op |-> "other", key |-> "", value |-> ""]}

db_insert_keeps_old(db, key, value) ==
    IF db[key] = None THEN [db EXCEPT ![key] = Some(value)] ELSE db

\* HashMap::insert and HashMap::get
db_insert(db, key, value) == [db EXCEPT ![key] = Some(value)]

db_get(db, key) == db[key]

SrvInit ==
    srv = [db |-> [k \in DbKeys |-> None],
           lock |-> 0,
           pc |-> [t \in Tasks |-> "read_frame"],
           req |-> [t \in Tasks |-> NoReq],
           response |-> [t \in Tasks |-> NoFrame],
           locks |-> [t \in Tasks |-> 0],
           before |-> [t \in Tasks |-> [k \in DbKeys |-> None]],
           latest |-> [k \in DbKeys |-> None],
           served |-> 0]

\* connection.read_frame().await gives the next command of the client
ProcReadFrame(t, request) ==
    /\ srv.pc[t] = "read_frame"
    /\ srv.served < MaxRequests
    /\ srv' = [srv EXCEPT !.pc[t] = "match", !.req[t] = request,
                          !.response[t] = NoFrame, !.locks[t] = 0,
                          !.served = @ + 1]
    /\ UNCHANGED otherThanSrv

\* connection.read_frame().await gives None: the client is gone, process ends
ProcEnd(t) ==
    /\ srv.pc[t] = "read_frame"
    /\ srv' = [srv EXCEPT !.pc[t] = "done", !.req[t] = NoReq, !.response[t] = NoFrame]
    /\ UNCHANGED otherThanSrv

\* db.lock().unwrap() of the Set and Get arms: waits until the mutex is free
ProcLock(t) ==
    /\ srv.pc[t] = "match"
    /\ srv.req[t].op \in {"set", "get"}
    /\ srv.lock = 0
    /\ srv' = [srv EXCEPT !.lock = t, !.pc[t] = "locked", !.locks[t] = @ + 1]
    /\ UNCHANGED otherThanSrv

\* the map access of the arm, under the guard
ProcAccess(t) ==
    /\ srv.pc[t] = "locked"
    /\ LET r == srv.req[t]
       IN  srv' = IF r.op = "set"
                  THEN [srv EXCEPT !.db = db_insert(@, r.key, r.value),
                                   !.response[t] = [kind |-> "Simple", val |-> <<"OK">>],
                                   !.before[t] = srv.latest,
                                   !.latest[r.key] = Some(r.value),
                                   !.pc[t] = "arm_end"]
                  ELSE [srv EXCEPT !.response[t] =
                                       IF db_get(srv.db, r.key) # None
                                       THEN [kind |-> "Bulk", val |-> db_get(srv.db, r.key)]
                                       ELSE [kind |-> "Null", val |-> <<>>],
                                   !.before[t] = srv.latest,
                                   !.pc[t] = "arm_end"]
    /\ UNCHANGED otherThanSrv

\* the arm's block ends: the guard, a local of the block, is dropped
ProcUnlock(t) ==
    /\ srv.pc[t] = "arm_end"
    /\ srv' = [srv EXCEPT !.lock = IF @ = t THEN 0 ELSE @, !.pc[t] = "write_frame"]
    /\ UNCHANGED otherThanSrv

\* the catch-all arm: no lock, no map access
ProcOther(t) ==
    /\ srv.pc[t] = "match"
    /\ srv.req[t].op = "other"
    /\ srv' = [srv EXCEPT !.response[t] = [kind |-> "Error", val |-> <<"unimplemented">>],
                          !.pc[t] = "write_frame"]
    /\ UNCHANGED otherThanSrv

\* connection.write_frame(&response).await completes
ProcWriteFrame(t) ==
    /\ srv.pc[t] = "write_frame"
    /\ srv' = [srv EXCEPT !.pc[t] = "read_frame"]
    /\ UNCHANGED otherThanSrv

(***************************************************************************)
(* Specifications.  Each one drives one data structure; the others stay as *)
(* constructed.                                                            *)
(***************************************************************************)
Init == DictInit /\ SkipInit /\ ZipInit /\ SdsInit /\ ConnInit /\ SrvInit

Next ==
    \/ \E key \in Keys, v \in DictValues : DictInsert(key, v)
    \/ \E key \in Keys : DictRemove(key)
    \/ \E key \in Keys : DictGet(key)

\* any sequence of insert / remove / get over a small key set
Spec == Init /\ [][Next]_vars

(***************************************************************************)
(* Growth: the fresh keys 0, 1, 2, ... are inserted in order, the youngest *)
(* key may be removed again, and any present key may be read.  This takes  *)
(* the Dict through the tables of 4, 8, 16 and 32 slots.                   *)
(***************************************************************************)
PresentKeys == {k \in DOMAIN shadow : shadow[k] # None}

NextKey == Cardinality(PresentKeys)

GrowInsert ==
    /\ NextKey < NumGrowKeys
    /\ DictInsert(NextKey, "v1")

GrowRemove ==
    /\ NextKey > 0
    /\ DictRemove(NextKey - 1)

GrowGet ==
    /\ NextKey > 0
    /\ \E key \in {0, NextKey - 1} : DictGet(key)

NextGrow == GrowInsert \/ GrowRemove \/ GrowGet

SpecGrow == Init /\ [][NextGrow]_vars

InitSkiplist == SkipInit /\ DictIdle /\ ZipInit /\ SdsInit /\ ConnInit /\ SrvInit

NextSkiplist ==
    \/ SkipUpdate
    \/ \E d \in Members, s \in Scores : SkipExists(s, d)

SpecSkiplist == InitSkiplist /\ [][NextSkiplist]_vars

NextSkipCount ==
    \/ SkipUpdate
    \/ \E min \in Bounds, max \in Bounds : SkipRangeCount(min, max)

SpecSkipCount == InitSkiplist /\ [][NextSkipCount]_vars

NextSkipRange ==
    \/ SkipUpdate
    \/ \E min \in Bounds, max \in Bounds, offset \in 0 .. MaxOffset,
          limit \in 0 .. MaxLimit : SkipRange(min, max, offset, limit)

SpecSkipRange == InitSkiplist /\ [][NextSkipRange]_vars

InitZiplist == ZipInit /\ DictIdle /\ SkipInit /\ SdsInit /\ ConnInit /\ SrvInit

NextZiplist ==
    \/ \E len \in ContentLens, first \in ContentFirst :
          ZipPushString(Content(len, first))
    \/ \E val \in IntValues : ZipPushInt(val)
    \/ ZipReadTail

SpecZiplist == InitZiplist /\ [][NextZiplist]_vars

\* integers only: the immediates, and both ends of the 8-, 16-, 24- and 32-bit
\* ranges
NextZipInt ==
    \/ \E val \in RoundTripInts : ZipPushInt(val)
    \/ ZipReadTail

SpecZipInt == InitZiplist /\ [][NextZipInt]_vars

NextZipPop ==
    \/ \E len \in PopContentLens : ZipPushString(Content(len, 1))
    \/ \E val \in PopInts : ZipPushInt(val)
    \/ ZipPopFront

SpecZipPop == InitZiplist /\ [][NextZipPop]_vars

\* strings at the ends of the three header tiers, pushed onto short lists
MaxHeaderEntries == 2
HeaderPushLens == {2, 63, 64, 255, 16383, 16384}

NextZipHeader ==
    \/ \E len \in HeaderPushLens, first \in ContentFirst :
          /\ Len(zshadow) < MaxHeaderEntries
          /\ ZipPushString(Content(len, first))
    \/ ZipReadTail

SpecZipHeader == InitZiplist /\ [][NextZipHeader]_vars

InitSds == SdsInit /\ DictIdle /\ SkipInit /\ ZipInit /\ ConnInit /\ SrvInit

\* one string grown across the preallocation ceiling
NextSds ==
    \/ \E bytes \in BigPieces : SdsNew(1, bytes)
    \/ \E bytes \in BigPieces : SdsAppend(1, bytes)
    \/ SdsClear(1)

SpecSds == InitSds /\ [][NextSds]_vars

\* two strings built independently from short slices
NextSdsPair ==
    \/ \E i \in Strings, bytes \in SmallPieces : SdsNew(i, bytes)
    \/ \E i \in Strings, bytes \in SmallPieces : SdsAppend(i, bytes)
    \/ \E i \in Strings : SdsClear(i)

SpecSdsPair == InitSds /\ [][NextSdsPair]_vars

InitConn == ConnInit /\ SrvInit /\ DictIdle /\ SkipInit /\ ZipInit /\ SdsInit

\* one connection: the peer writes and closes, the server side calls read_frame
NextConn ==
    \/ \E bytes \in PeerWrites : PeerSend(bytes)
    \/ PeerClose
    \/ ReadFrameCall
    \/ ReadFrameParse
    \/ \E n \in ReadSizes : ReadFrameRead(n)
    \/ ReadFrameEof

SpecConn == InitConn /\ [][NextConn]_vars

\* two client tasks, their steps interleaved in any order
NextServer ==
    \/ \E t \in Tasks, request \in Requests : ProcReadFrame(t, request)
    \/ \E t \in Tasks : ProcEnd(t)
    \/ \E t \in Tasks : ProcLock(t)
    \/ \E t \in Tasks : ProcAccess(t)
    \/ \E t \in Tasks : ProcUnlock(t)
    \/ \E t \in Tasks : ProcOther(t)
    \/ \E t \in Tasks : ProcWriteFrame(t)

SpecServer == InitConn /\ [][NextServer]_vars

(***************************************************************************)
(* Claims about the Dict                                                   *)
(***************************************************************************)
\* C1: get(k) returns the value of the most recent insert(k, v) that was not
\* followed by remove(k), and None otherwise, also while a rehash is in
\* progress.
C1_GetReturnsLatestInsert ==
    dlast.op = "get" => (dstatus = "ok" /\ dlast.ret = shadow[dlast.key])

\* C2: value_cnt() equals the number of distinct keys currently present, in
\* every reachable state, whether or not a rehash is in progress.
C2_ValueCntIsKeyCount == value_cnt(dict) = Cardinality(PresentKeys)

\* a rehash is mid-flight with entries on both sides, after a remove
C2_Witness ==
    /\ is_rehashing(dict)
    /\ dict.main_table.cnt > 0
    /\ dict.back_table[1].cnt > 0
    /\ dlast.op = "remove"
    /\ dlast.ret # None

\* C3: once a rehash has started, the calls that follow complete it (cursor
\* None, back None) within a number of calls bounded by main's slot count.
C3_RehashCompletesWithinSlotCount ==
    is_rehashing(dict) =>
        (dstatus = "ok" /\ calls < slots_cnt(dict.main_table))

\* C4: the rehash step of one Dict operation visits at most 10 empty slots
\* plus the one migrated slot, whatever the table's slot count.
C4_StepVisitsBoundedSlots == dlast.visited <= 11


(***************************************************************************)
(* Claims about the Skiplist                                               *)
(***************************************************************************)
SkipCrashed == sstatus \in {"panic", "ub"}

\* the score satisfies the optional inclusive / exclusive bounds
InRange(score, min, max) ==
    /\ min = None \/ score > min[1].bound
                  \/ (score = min[1].bound /\ ~min[1].exclusive)
    /\ max = None \/ score < max[1].bound
                  \/ (score = max[1].bound /\ ~max[1].exclusive)

\* C5: range_count(min, max) is the number of stored elements whose score
\* satisfies both bounds, for every combination of absent / present and
\* inclusive / exclusive bounds; an empty range counts 0.
C5_RangeCountMatchesEnumeration ==
    slast.op = "range_count" =>
        /\ ~SkipCrashed
        /\ slast.ret.count = (Cardinality({p \in present :
                                           InRange(p[1], slast.min, slast.max)}))

\* the least pair of a non-empty set in (score, member) order
LeastPair(set) ==
    CHOOSE p \in set : \A q \in set : cmp(p[1], p[2], q[1], q[2]) # "Greater"

RECURSIVE SortedPairs(_)
SortedPairs(set) ==
    IF set = {} THEN <<>>
    ELSE <<LeastPair(set)>> \o SortedPairs(set \ {LeastPair(set)})

Slice(seq, offset, limit) ==
    SubSeq(seq, offset + 1,
           IF limit = 0 \/ offset + limit > Len(seq) THEN Len(seq)
           ELSE offset + limit)

BruteForceRange(min, max, offset, limit) ==
    Slice(SortedPairs({p \in present : InRange(p[1], min, max)}), offset, limit)

ScoreMember(items) == [i \in 1 .. Len(items) |-> <<items[i][1], items[i][2]>>]

\* C6: range(min, max, offset, limit) returns the stored elements in
\* ascending (score, member) order, filtered by the bounds, without the first
\* offset of them and at most limit long (limit 0: no limit); it is empty
\* when no stored element satisfies min.
C6_RangeMatchesBruteForce ==
    slast.op = "range" =>
        /\ ~SkipCrashed
        /\ ScoreMember(slast.ret.items) =
             BruteForceRange(slast.min, slast.max, slast.offset, slast.limit)

\* the fields of the list and of the nodes that existed before the step
SameStructure ==
    /\ sl'.length = sl.length
    /\ sl'.level = sl.level
    /\ sl'.level_links = sl.level_links
    /\ sl'.level_spans = sl.level_spans
    /\ \A p \in 1 .. Len(sl.heap) : sl'.heap[p] = sl.heap[p]

\* C7: an insert of a pair that is already stored is rejected and changes
\* nothing: length, level, head links and spans, and every node's links,
\* spans and backward link are as before, whatever height was drawn.
C7_DuplicateInsertMutatesNothing ==
    [][(slast'.op = "insert" /\ <<slast'.score, slast'.data>> \in present) =>
           (sstatus' = sstatus /\ slast'.ret.node = None /\ SameStructure)]_vars

\* C8: exists(score, member) is true exactly for the pairs inserted and not
\* removed or cleared since, after any sequence of insert, remove and clear.
C8_ExistsIffStored ==
    slast.op = "exists" =>
        /\ ~SkipCrashed
        /\ slast.ret.flag = (<<slast.score, slast.data>> \in present)

\* the (score, member) pairs along the level-0 chain from p; a pointer to a
\* freed node ends the sequence with <<0, 0>>
RECURSIVE Level0From(_, _)
Level0From(S, p) ==
    IF p = Null THEN <<>>
    ELSE IF S.heap[p].freed THEN << <<0, 0>> >>
    ELSE << <<S.heap[p].score, S.heap[p].data>> >>
           \o Level0From(S, S.heap[p].levels[1])

Level0(S) == IF S.level_links = <<>> THEN <<>> ELSE Level0From(S, S.level_links[1])

Without(seq, x) == SelectSeq(seq, LAMBDA e : e # x)

\* C9: remove returns true exactly when the pair is stored; then that
\* element alone leaves the level-0 sequence and the length drops by one;
\* otherwise it returns false and length, links and spans stay as they were.
C9_RemoveResult ==
    [][slast'.op = "remove" =>
           /\ sstatus' = sstatus
           /\ IF <<slast'.score, slast'.data>> \in present
              THEN /\ slast'.ret.flag
                   /\ sl'.length = sl.length - 1
                   /\ Level0(sl') = Without(Level0(sl), <<slast'.score, slast'.data>>)
              ELSE /\ ~slast'.ret.flag
                   /\ SameStructure]_vars


(***************************************************************************)
(* Claims about the ZipList                                                *)
(***************************************************************************)
\* C10: a string pushed with push_tail_string is read back from its entry
\* byte for byte, whatever its length and whatever entry precedes it.
C10_StringRoundTrip ==
    /\ zlast.op = "push_tail_string" => zstatus = "ok"
    /\ (zlast.op = "read_tail" /\ zshadow # <<>>
          /\ zshadow[Len(zshadow)].kind = "Bytes") =>
           (zstatus = "ok" /\ zlast.ret = zshadow[Len(zshadow)])

\* C11: an integer pushed with push_tail_int is read back unchanged from its
\* entry: the push succeeds and parsing the entry yields the pushed value.
C11_IntRoundTrip ==
    /\ zlast.op = "push_tail_int" => zstatus = "ok"
    /\ (zlast.op = "read_tail" /\ zshadow # <<>>
          /\ zshadow[Len(zshadow)].kind = "Int") =>
           (zstatus = "ok" /\ zlast.ret = zshadow[Len(zshadow)])

\* the entries of the list from the first one on, as a reader that walks
\* forward to the recorded size finds them: the value of each, the prevrawlen
\* it stores and the size of the entry before it
BadEntry == [val |-> NoValue, prevrawlen |-> -1, before |-> -2]

RECURSIVE EntriesFrom(_, _, _)
EntriesFrom(buf, off, before) ==
    IF off >= bytes_size(buf) THEN <<>>
    ELSE IF off > Len(buf) \/ entry_parse(buf, off).panic
              \/ read_entry(buf, entry_parse(buf, off), off).panic
    THEN <<BadEntry>>
    ELSE <<[val |-> read_entry(buf, entry_parse(buf, off), off).val,
            prevrawlen |-> entry_parse(buf, off).prevrawlen,
            before |-> before]>>
           \o EntriesFrom(buf, off + entry_size(entry_parse(buf, off)),
                          entry_size(entry_parse(buf, off)))

Entries(buf) == EntriesFrom(buf, ZIPLIST_HEADER_SIZE, 0)

EntryValues(buf) == [i \in DOMAIN Entries(buf) |-> Entries(buf)[i].val]

WellFormed(buf) ==
    \A i \in DOMAIN Entries(buf) : Entries(buf)[i].prevrawlen = Entries(buf)[i].before

\* C12: pop_front on a well-formed list of two or more entries returns the
\* value of the first entry, lowers the entry count by one, and leaves the
\* other entries parseable, in their order, each with the size of the entry
\* now before it as its prevrawlen (0 for the new first entry).
C12_PopFrontKeepsTheRest ==
    [][(zlast'.op = "pop_front" /\ WellFormed(zl) /\ Len(Entries(zl)) >= 2) =>
          /\ zstatus' = "ok"
          /\ zlast'.ret = EntryValues(zl)[1]
          /\ get_entry_cnt(zl') = Len(Entries(zl)) - 1
          /\ WellFormed(zl')
          /\ EntryValues(zl') = Tail(EntryValues(zl))]_vars

\* the encoding and the size of the entries the calls so far have left in the
\* list, each entry with the prevrawlen width its predecessor's size asks for
ShadowEncoding(v) ==
    IF v.kind = "Int" THEN EncInteger(v.int) ELSE EncString(Len(v.bytes))

RECURSIVE ShadowSizes(_, _, _)
ShadowSizes(values, i, before) ==
    IF i > Len(values) THEN <<>>
    ELSE <<prevrawlen_size(before)
             + encoding_len_with_content(ShadowEncoding(values[i]))>>
           \o ShadowSizes(values, i + 1,
                          prevrawlen_size(before)
                            + encoding_len_with_content(ShadowEncoding(values[i])))

RECURSIVE SumUpTo(_, _)
SumUpTo(sizes, n) == IF n <= 0 THEN 0 ELSE sizes[n] + SumUpTo(sizes, n - 1)

\* C13: after any calls of push_tail_int, push_tail_string and pop_front the
\* recorded byte length is the header size plus the sizes of all entries, and
\* the recorded tail offset is the offset of the last entry (the header size
\* for an empty list).
C13_HeaderMatchesEntries ==
    zstatus = "ok" =>
        /\ bytes_size(zl) =
             ZIPLIST_HEADER_SIZE
               + SumUpTo(ShadowSizes(zshadow, 1, 0), Len(zshadow))
        /\ tail_offset(zl) =
             ZIPLIST_HEADER_SIZE
               + SumUpTo(ShadowSizes(zshadow, 1, 0), Len(zshadow) - 1)

\* C14: get_entry_cnt is the number of entries in the list; a count of 0xFFFF
\* and more is stored as 0xFFFF, and the walk from the tail through the
\* prevrawlen fields, which get_entry_cnt returns when the stored count is
\* 0xFFFF, finds the number of entries.
C14_EntryCount ==
    zstatus = "ok" =>
        /\ get_entry_cnt(zl) = Len(zshadow)
        /\ read_entry_cnt(set_entry_cnt(zl, 65535 + Len(zshadow))) = 65535
        /\ zshadow # <<>> => count_entry(zl) = Len(zshadow)

\* the entry at the tail does not parse: its encoding byte is rejected
\* (Err(InvalidEntryEncoding)) or its bytes run past the end of the buffer
TailParseFails(buf) ==
    /\ read_entry_cnt(buf) > 0
    /\ tail_offset(buf) <= Len(buf)
    /\ entry_parse(buf, tail_offset(buf)).panic

\* C15: an operation that parses an entry whose encoding byte is not
\* recognised, or whose bytes run past the end of the buffer, hands a ZLError
\* to its caller: it does not panic and does not go on.
C15_ParseFailureIsTypedError ==
    [][(TailParseFails(zl) /\ zlast'.op \in {"push_tail_int", "read_tail"}) =>
          (zstatus' = "err" /\ zl' = zl)]_vars

\* what a key's tables hold for it once the call's rehash step is done: the
\* value in back if there is one, otherwise the one in main
StoredAfterStep(key) == dict_lookup(hasher, try_rehash_step(hasher, dict, 1).d, key)

\* C16: insert(k, v) returns the value stored for k before the call (None
\* when k was absent) and remove(k) returns the value it removes (None when
\* absent), with or without a rehash in progress; during a rehash insert
\* returns the value replaced in back if there is one, otherwise the one
\* removed from main.
C16_InsertRemoveReturnPrevious ==
    [][(dlast'.op \in {"insert", "remove"}) =>
          /\ dstatus' = "ok"
          /\ dlast'.ret = shadow[dlast'.key]
          /\ dlast'.ret = StoredAfterStep(dlast'.key)]_vars

\* the keys a table stores, whatever slot they are in
TableKeys(t) ==
    UNION {{t.slots[i][j].k : j \in DOMAIN t.slots[i]} : i \in DOMAIN t.slots}

\* C17: while a rehash is in progress every key of the Dict is stored in
\* exactly one of main and back, never in both; a key inserted during a
\* rehash is stored in back and not in main.
C17_KeyInExactlyOneTable ==
    /\ [](is_rehashing(dict) =>
            /\ TableKeys(dict.main_table) \cap TableKeys(dict.back_table[1]) = {}
            /\ TableKeys(dict.main_table) \cup TableKeys(dict.back_table[1])
                 = PresentKeys)
    /\ [][(dlast'.op = "insert" /\ dstatus' = "ok"
             /\ is_rehashing(try_rehash_step(hasher, dict, 1).d)) =>
             /\ dlast'.key \in TableKeys(dict'.back_table[1])
             /\ dlast'.key \notin TableKeys(dict'.main_table)]_vars

\* a key still in main is inserted again during the rehash, with keys on both
\* sides afterwards
C17_Witness ==
    /\ is_rehashing(dict)
    /\ dlast.op = "insert"
    /\ dlast.was_rehashing
    /\ dlast.ret # None
    /\ dlast.visited = 1
    /\ dlast.key \in TableKeys(dict.back_table[1])
    /\ dict.main_table.cnt > 0

\* C18: in every reachable state of the Dict the rehash cursor is present if
\* and only if the back table is present.
C18_CursorIffBack == (dict.rehash_idx # None) <=> (dict.back_table # None)

\* a rehash whose cursor has moved past slot 0, with entries left in main
C18_Witness ==
    /\ dict.rehash_idx # None
    /\ dict.back_table # None
    /\ dict.rehash_idx[1] > 0
    /\ dict.main_table.cnt > 0
    /\ dstatus = "ok"

\* the addresses along the chain of level lc from p; a pointer that is
\* dangling, or points to a node without that level, ends the sequence with
\* Null
RECURSIVE ChainFrom(_, _, _)
ChainFrom(S, p, lc) ==
    IF p = Null THEN <<>>
    ELSE IF S.heap[p].freed \/ Len(S.heap[p].levels) <= lc THEN <<Null>>
    ELSE <<p>> \o ChainFrom(S, S.heap[p].levels[lc + 1], lc)

Chain(S, lc) ==
    IF lc >= Len(S.level_links) THEN <<>> ELSE ChainFrom(S, S.level_links[lc + 1], lc)

\* the 1-based position of node p on the level-0 chain, 0 for the virtual
\* head, and one past the end for Null
Position(S, p) ==
    IF p = Null THEN Len(Chain(S, 0)) + 1
    ELSE IF \E i \in DOMAIN Chain(S, 0) : Chain(S, 0)[i] = p
    THEN CHOOSE i \in DOMAIN Chain(S, 0) : Chain(S, 0)[i] = p
    ELSE -1

\* the number of level-0 nodes the link of level lc leaving slow (Null for
\* the head) skips
Skipped(S, slow, lc) ==
    Position(S, link_of(S, slow, lc)) - (IF slow = Null THEN 0 ELSE Position(S, slow)) - 1

\* C19: after any inserts and removes, the span stored with every forward
\* link, of the head and of every node at every level, is the number of
\* level-0 nodes the link skips: those strictly between its ends, or all
\* nodes after its source when the link ends the level.
C19_SpansCountSkippedNodes ==
    ~SkipCrashed =>
        /\ Null \notin {Chain(sl, 0)[i] : i \in DOMAIN Chain(sl, 0)}
        /\ Len(sl.level_spans) = Len(sl.level_links)
        /\ \A lc \in 0 .. (Len(sl.level_links) - 1) :
              span_of(sl, Null, lc) = Skipped(sl, Null, lc)
        /\ \A i \in DOMAIN Chain(sl, 0) :
              /\ Len(sl.heap[Chain(sl, 0)[i]].spans)
                   = Len(sl.heap[Chain(sl, 0)[i]].levels)
              /\ \A lc \in 0 .. (Len(sl.heap[Chain(sl, 0)[i]].levels) - 1) :
                    span_of(sl, Chain(sl, 0)[i], lc)
                      = Skipped(sl, Chain(sl, 0)[i], lc)

\* the nodes of the level-0 chain whose height reaches level lc
ReachingLevel(S, lc) ==
    SelectSeq(Chain(S, 0), LAMBDA p : Len(S.heap[p].levels) > lc)

\* C20: after any inserts and removes the level-0 chain lists exactly the
\* stored pairs in strictly ascending (score, member) order, and the chain of
\* every higher level is the subsequence of the level-0 chain made of the
\* nodes whose height reaches that level.
C20_ChainsAscending ==
    ~SkipCrashed =>
        /\ Level0(sl) = SortedPairs(present)
        /\ Null \notin {Chain(sl, 0)[i] : i \in DOMAIN Chain(sl, 0)}
        /\ \A lc \in 1 .. (Len(sl.level_links) - 1) :
              Chain(sl, lc) = ReachingLevel(sl, lc)


(***************************************************************************)
(* C21: after any sequence of new, append and clear, the buffer of an SDS  *)
(* is exactly as long as its current length plus its free count, and no    *)
(* call of the sequence aborts.                                            *)
(***************************************************************************)
C21_BufferIsLenPlusFree ==
    /\ sdsstatus = "ok"
    /\ \A i \in Strings : VecLen(sds[i].data) = sds[i].cur_len + sds[i].free

\* an append in place into a buffer that was grown past MAX_PREALLOC
C21_Witness ==
    /\ sdslast.op = "append"
    /\ sds[1].cur_len > MAX_PREALLOC
    /\ sds[1].free > 0
    /\ sdscalls[1] = MaxAppends

(***************************************************************************)
(* C22: an append of n bytes (new is an append to the empty SDS) that      *)
(* finds free >= n keeps the buffer size and lowers free by n; otherwise,  *)
(* with needed = length + n, the buffer becomes 2 * needed bytes when      *)
(* 2 * needed <= 1048576 and needed + 1048576 bytes when it is more.       *)
(***************************************************************************)
GrowthPolicy(old, new, n) ==
    IF old.free >= n
    THEN /\ VecLen(new.data) = VecLen(old.data)
         /\ new.free = old.free - n
    ELSE VecLen(new.data) =
             IF 2 * (old.cur_len + n) <= 1048576
             THEN 2 * (old.cur_len + n)
             ELSE old.cur_len + n + 1048576

C22_AppendGrowthPolicy ==
    [][/\ sdslast'.op = "append" =>
              GrowthPolicy(sds[sdslast'.i], sds'[sdslast'.i], sdslast'.n)
       /\ sdslast'.op = "new" =>
              GrowthPolicy(sds_empty, sds'[sdslast'.i], sdslast'.n)]_vars

\* a megabyte appended to a string of more than a megabyte that had no room
\* for it: the buffer is the new length and a megabyte more
C22_Witness ==
    /\ sdslast.op = "append"
    /\ sdslast.n = 1048576
    /\ sds[1].cur_len > 2 * 1048576
    /\ sds[1].free = 1048576

(***************************************************************************)
(* C23: after new(b0) and appends of b1 .. bn, whichever of them           *)
(* reallocated, val() is the concatenation b0 b1 .. bn and len() is its    *)
(* length; after clear() length and free are 0 and the buffer is empty.    *)
(***************************************************************************)
C23_ValueIsConcatenation ==
    \A i \in Strings :
        /\ sds[i].cur_len <= VecLen(sds[i].data)
        /\ sds_val(sds[i]) = sdsval[i]
        /\ sds_len(sds[i]) = VecLen(sdsval[i])
        /\ (sdslast.op = "clear" /\ sdslast.i = i) =>
               /\ sds[i].cur_len = 0
               /\ sds[i].free = 0
               /\ sds[i].data = <<>>

\* three slices, the second written in place and the third after a
\* reallocation that copied the first two
C23_Witness ==
    /\ sdslast.op = "append"
    /\ sdscalls[1] = 2
    /\ sdsval[1] = <<Run(2, 1048576), Run(1, 524288 + 524289)>>
    /\ sds[1].free = 1048576

(***************************************************************************)
(* C24: two SDS values holding the same occupied bytes compare equal and   *)
(* feed the hasher the same input, whatever their free counts and buffer   *)
(* sizes; two values holding different occupied bytes compare unequal.  A  *)
(* Dict finds a key through hash and eq alone, so it finds an SDS key      *)
(* however the key was built.                                              *)
(***************************************************************************)
C24_EqualityOverOccupiedBytes ==
    \A i, j \in Strings :
        IF sdsval[i] = sdsval[j]
        THEN /\ sds_eq(sds[i], sds[j])
             /\ sds_hash(sds[i]) = sds_hash(sds[j])
        ELSE ~sds_eq(sds[i], sds[j])

\* "aa" built by one new and by new("a") and append("a"): equal bytes in
\* buffers of different sizes
C24_Witness ==
    /\ sdsval[1] = <<Run(97, 2)>>
    /\ sdsval[2] = <<Run(97, 2)>>
    /\ sds[1].free # sds[2].free
    /\ VecLen(sds[1].data) # VecLen(sds[2].data)

(***************************************************************************)
(* C25: every node a table stores is in the chain of slot                  *)
(* hash(key) & (slot_count - 1) of that table, in main and in back, also   *)
(* after it has been migrated; the count of each table is the number of    *)
(* nodes in its chains.                                                    *)
(***************************************************************************)
NodesIn(t) == SumUpTo([i \in DOMAIN t.slots |-> Len(t.slots[i])], Len(t.slots))

WellPlaced(t) ==
    /\ \A i \in DOMAIN t.slots : \A j \in DOMAIN t.slots[i] :
           gen_hash(hasher, t.slots[i][j].k) % Len(t.slots) = i - 1
    /\ t.cnt = NodesIn(t)

C25_NodesInTheirSlots ==
    /\ WellPlaced(dict.main_table)
    /\ dict.back_table # None => WellPlaced(dict.back_table[1])

\* a step has migrated a chain of two nodes whose keys part in the larger
\* table, and nodes are left in main
C25_Witness ==
    /\ dstatus = "ok"
    /\ hasher = 3
    /\ dict.back_table # None
    /\ dict.main_table.cnt > 0
    /\ dlast.was_rehashing
    /\ dict.main_table.slots[1] = <<>>
    /\ {0, 1} \subseteq TableKeys(dict.back_table[1])

(***************************************************************************)
(* C26: when a call of Dict::insert has returned, a rehash is in progress  *)
(* or main holds fewer entries than it has slots.                          *)
(***************************************************************************)
C26_LoadBelowOneAfterInsert ==
    (dlast.op = "insert" /\ dstatus = "ok") =>
        \/ is_rehashing(dict)
        \/ dict.main_table.cnt < Len(dict.main_table.slots)

\* an insert that completed a rehash with its step and then filled main up
\* to the last free slot but one
C26_Witness ==
    /\ dlast.op = "insert"
    /\ dstatus = "ok"
    /\ dlast.was_rehashing
    /\ ~is_rehashing(dict)
    /\ dict.main_table.cnt = Len(dict.main_table.slots) - 1

(***************************************************************************)
(* C27: whenever a rehash starts (an insert outside a rehash adds a key    *)
(* that fills main), back is allocated empty with exactly twice the slots  *)
(* of main and the cursor is 0, for every slot count reached by doubling   *)
(* from 4.                                                                 *)
(***************************************************************************)
\* the Dict st.d, left by the rehash step of an insert of key, is about to
\* start a rehash
StartsRehash(st, key) ==
    /\ ~st.panic
    /\ ~is_rehashing(st.d)
    /\ key \notin TableKeys(st.d.main_table)
    /\ st.d.main_table.cnt + 1 >= Len(st.d.main_table.slots)

StartedDoubled(d) ==
    /\ d.rehash_idx = Some(0)
    /\ d.back_table # None
    /\ Len(d.back_table[1].slots) = 2 * Len(d.main_table.slots)
    /\ d.back_table[1].cnt = 0
    /\ \A i \in DOMAIN d.back_table[1].slots : d.back_table[1].slots[i] = <<>>

C27_RehashStartsDoubled ==
    [][(dlast'.op = "insert"
          /\ StartsRehash(try_rehash_step(hasher, dict, 1), dlast'.key)) =>
          /\ dstatus' = "ok"
          /\ StartedDoubled(dict')]_vars

\* the same, for the tables of fewer than 32 slots
C27_StartsDoubledBelow32 ==
    [][(dlast'.op = "insert"
          /\ Len(try_rehash_step(hasher, dict, 1).d.main_table.slots) < 32
          /\ StartsRehash(try_rehash_step(hasher, dict, 1), dlast'.key)) =>
          /\ dstatus' = "ok"
          /\ StartedDoubled(dict')]_vars

(***************************************************************************)
(* C28: a Dict operation called during a rehash with main not empty        *)
(* migrates exactly one non-empty slot of main, the first one at or after  *)
(* the cursor: the whole chain is in back afterwards, the slot is empty,   *)
(* main's count is lower by the length of the chain, and no other slot of  *)
(* main is touched.                                                        *)
(***************************************************************************)
\* the loop of the rehash step a call on d begins with
StepLoop(d) ==
    RehashLoop(hasher, d, d.rehash_idx[1], 1,
               max_slots_idx_to_check(d, 1, d.rehash_idx[1]), d.rehash_idx[1])

HasNode(t, n) ==
    \E i \in DOMAIN t.slots : \E j \in DOMAIN t.slots[i] : t.slots[i][j] = n

\* slot i (counted from 1) is the first non-empty slot at or after the cursor
FirstNonEmpty(d, i) ==
    /\ i > d.rehash_idx[1]
    /\ d.main_table.slots[i] # <<>>
    /\ \A j \in (d.rehash_idx[1] + 1) .. (i - 1) : d.main_table.slots[j] = <<>>

\* r is d with the chain of slot i moved to back and nothing else changed
MigratesSlot(d, r, i) ==
    /\ ~r.panic
    /\ r.latest_idx = i - 1
    /\ r.d.main_table.slots = [d.main_table.slots EXCEPT ![i] = <<>>]
    /\ r.d.main_table.cnt = d.main_table.cnt - Len(d.main_table.slots[i])
    /\ \A j \in DOMAIN d.main_table.slots[i] :
           HasNode(r.d.back_table[1], d.main_table.slots[i][j])
    /\ r.d.back_table[1].cnt = d.back_table[1].cnt + Len(d.main_table.slots[i])

\* a get that does not complete the rehash leaves exactly what its step left
GetLeavesStep(d, r, i) ==
    (dlast'.op = "get" /\ d.main_table.cnt > Len(d.main_table.slots[i])) =>
        /\ dstatus' = "ok"
        /\ dict'.main_table = r.d.main_table
        /\ dict'.back_table = r.d.back_table

Mapping(d) ==
    [k \in DOMAIN shadow |->
        IF \E v \in DictValues :
               d.back_table # None /\ HasNode(d.back_table[1], [k |-> k, v |-> v])
        THEN Some(CHOOSE v \in DictValues :
                      HasNode(d.back_table[1], [k |-> k, v |-> v]))
        ELSE IF \E v \in DictValues : HasNode(d.main_table, [k |-> k, v |-> v])
        THEN Some(CHOOSE v \in DictValues : HasNode(d.main_table, [k |-> k, v |-> v]))
        ELSE None]

StepKeepsMapping(d, st) ==
    /\ Mapping(st.d) = Mapping(d)
    /\ value_cnt(st.d) = value_cnt(d)

\* a get does nothing to the Dict but its step; a step that aborts (C30) has
\* changed nothing when it does
C29_StepKeepsMapping ==
    [][is_rehashing(dict) =>
          /\ StepKeepsMapping(dict, try_rehash_step(hasher, dict, 1))
          /\ dlast'.op = "get" =>
                 /\ Mapping(dict') = Mapping(dict)
                 /\ value_cnt(dict') = value_cnt(dict)]_vars

\* a get has completed a rehash, and the four keys are still there
C29_Witness ==
    /\ dstatus = "ok"
    /\ dlast.op = "get"
    /\ dlast.was_rehashing
    /\ ~is_rehashing(dict)
    /\ value_cnt(dict) = 4
    /\ \A k \in Keys : Mapping(dict)[k] = shadow[k]

(***************************************************************************)
(* C30: a rehash step reads only slots of main whose index is below main's *)
(* slot count; a step entered during a rehash with main's count 0 ends by  *)
(* completing the migration, not by indexing past the last slot.           *)
(***************************************************************************)
C30_StepStaysInBounds ==
    [][is_rehashing(dict) =>
          /\ ~StepLoop(dict).panic
          /\ StepLoop(dict).latest_idx < Len(dict.main_table.slots)
          /\ dict.main_table.cnt = 0 =>
                 /\ dstatus' = "ok"
                 /\ ~is_rehashing(try_rehash_step(hasher, dict, 1).d)]_vars

\* the same, for steps entered with nodes left in main
C30_InBoundsWhileMainNonEmpty ==
    [][(is_rehashing(dict) /\ dict.main_table.cnt > 0) =>
          /\ ~StepLoop(dict).panic
          /\ StepLoop(dict).latest_idx < Len(dict.main_table.slots)
          /\ dstatus' = "ok"]_vars

(***************************************************************************)
(* C31: after any inserts and removes the backward link of the first       *)
(* level-0 node is null and the backward link of every other level-0 node  *)
(* is the node before it; after a remove the node that followed the        *)
(* removed one points back to the removed node's predecessor, never to the *)
(* removed node.                                                           *)
(***************************************************************************)
C31_BackwardIsPredecessor ==
    ~SkipCrashed =>
        \A i \in DOMAIN Chain(sl, 0) :
            /\ Chain(sl, 0)[i] # Null
            /\ sl.heap[Chain(sl, 0)[i]].backward
                 = IF i = 1 THEN Null ELSE Chain(sl, 0)[i - 1]

(***************************************************************************)
(* C32: every node an insert has allocated is linked in the level-0 chain  *)
(* or has been freed; none is left unreachable from the level-0 chain      *)
(* without being freed, the node allocated for a rejected duplicate and    *)
(* the one inserted into a list emptied by removes included.               *)
(***************************************************************************)
C32_NodesLinkedOrFreed ==
    ~SkipCrashed =>
        \A p \in DOMAIN sl.heap :
            \/ sl.heap[p].freed
            \/ \E i \in DOMAIN Chain(sl, 0) : Chain(sl, 0)[i] = p

(***************************************************************************)
(* C33: after every Skiplist operation level is the greatest height of a   *)
(* node successfully inserted since creation or the last clear: an         *)
(* accepted insert raises it to the node's height when that is greater, a  *)
(* rejected insert and a remove leave it, a clear resets it to 0; and the  *)
(* head arrays level_links and level_spans hold exactly level entries.     *)
(***************************************************************************)
HeadArraysMatchLevel(S) ==
    /\ Len(S.level_links) = S.level
    /\ Len(S.level_spans) = S.level

LevelFollows(call, old, new) ==
    CASE call.op = "insert" /\ call.ret.node # None ->
             new.level = IF call.level > old.level THEN call.level ELSE old.level
      [] call.op = "insert" /\ call.ret.node = None -> new.level = old.level
      [] call.op = "remove" -> new.level = old.level
      [] call.op = "clear" -> new.level = 0
      [] OTHER -> new.level = old.level

C33_LevelIsGreatestHeight ==
    /\ [](~SkipCrashed => HeadArraysMatchLevel(sl))
    /\ [][sstatus' \notin {"panic", "ub"} => LevelFollows(slast', sl, sl')]_vars

(***************************************************************************)
(* C34: after any calls of push_tail the prevrawlen field of the first     *)
(* entry is the byte 0, and that of every other entry holds the total size *)
(* of the entry before it: one byte when the size is below 254, otherwise  *)
(* the marker 0xFE and the size as a 4-byte big-endian integer; the field  *)
(* decodes to that size.                                                   *)
(***************************************************************************)
\* the prevrawlen field for an entry that follows one of size bytes
PrevrawlenField(size) ==
    IF size < 254 THEN <<size>>
    ELSE <<254, (size \div 16777216) % 256, (size \div 65536) % 256,
           (size \div 256) % 256, size % 256>>

\* the bytes at offset off of buf are field
FieldAt(buf, off, field) ==
    /\ off + Len(field) <= Len(buf)
    /\ \A k \in DOMAIN field : buf[off + k] = field[k]

\* entry i of a list of entries of these sizes: its offset, and the size of
\* the entry before it
PrevrawlenWritten(buf, sizes, i) ==
    /\ FieldAt(buf, ZIPLIST_HEADER_SIZE + SumUpTo(sizes, i - 1),
               PrevrawlenField(IF i = 1 THEN 0 ELSE sizes[i - 1]))
    /\ parse_prevrawlen(buf, ZIPLIST_HEADER_SIZE + SumUpTo(sizes, i - 1))
         = (IF i = 1 THEN 0 ELSE sizes[i - 1])

C34_PrevrawlenIsPreviousSize ==
    zstatus = "ok" =>
        \A i \in DOMAIN zshadow :
            PrevrawlenWritten(zl, ShadowSizes(zshadow, 1, 0), i)

\* the same for lists whose entries are all shorter than 254 bytes
C34_ShortEntries ==
    (zstatus = "ok"
       /\ \A i \in DOMAIN zshadow : ShadowSizes(zshadow, 1, 0)[i] < 254) =>
        \A i \in DOMAIN zshadow :
            PrevrawlenWritten(zl, ShadowSizes(zshadow, 1, 0), i)

(***************************************************************************)
(* C35: the type+length header of a string of n bytes is one byte, the     *)
(* 6-bit length under the top bits 00, when n < 64; two bytes, the 14-bit  *)
(* big-endian length under the top bits 01, when 64 <= n < 16384; and      *)
(* otherwise five bytes, 0x80 and n as a 4-byte big-endian integer.        *)
(* Parsing the header gives back a string encoding of length n.            *)
(***************************************************************************)
StrHeader(n) ==
    IF n < 64 THEN <<n>>
    ELSE IF n < 16384 THEN <<64 + (n \div 256), n % 256>>
    ELSE <<128, (n \div 16777216) % 256, (n \div 65536) % 256,
           (n \div 256) % 256, n % 256>>

\* lengths at the ends of the three tiers, beside those the pushes use
HeaderLens ==
    {0, 1, 63, 64, 255, 256, 16383, 16384, 65535, 65536, 16777215, 16777216,
     2147483647}

HeaderRoundTrips(n) ==
    /\ encoding_bytes(EncString(n)) = StrHeader(n)
    /\ Len(encoding_bytes(EncString(n))) = encoding_len(EncString(n))
    /\ encoding_parse(encoding_bytes(EncString(n)), 0) = ParseOk(EncString(n))

\* every string pushed so far, and the header the first push left in the
\* buffer behind the one-byte prevrawlen
C35_StringHeader ==
    /\ \A n \in HeaderLens : HeaderRoundTrips(n)
    /\ \A i \in DOMAIN zshadow :
           zshadow[i].kind = "Bytes" => HeaderRoundTrips(Len(zshadow[i].bytes))
    /\ (zstatus = "ok" /\ zshadow # <<>> /\ zshadow[1].kind = "Bytes") =>
           /\ FieldAt(zl, ZIPLIST_HEADER_SIZE + 1, StrHeader(Len(zshadow[1].bytes)))
           /\ encoding_parse(zl, ZIPLIST_HEADER_SIZE + 1)
                = ParseOk(EncString(Len(zshadow[1].bytes)))

\* a string of 16384 bytes is the first entry, behind a five-byte header
C35_Witness ==
    /\ zstatus = "ok"
    /\ zshadow # <<>>
    /\ zshadow[1].kind = "Bytes"
    /\ Len(zshadow[1].bytes) = 16384
    /\ zl[ZIPLIST_HEADER_SIZE + 2] = 128

(***************************************************************************)
(* C36: while a rehash is in progress, after every Dict operation back     *)
(* holds fewer entries than it has slots.                                  *)
(***************************************************************************)
C36_BackBelowLoadOne ==
    is_rehashing(dict) =>
        /\ dict.back_table # None
        /\ NodesIn(dict.back_table[1]) < Len(dict.back_table[1].slots)
        /\ dict.back_table[1].cnt < Len(dict.back_table[1].slots)

\* the last call before a rehash of 16 slots completes: back holds all but
\* one of its 32 slots' worth
C36_Witness ==
    /\ dstatus = "ok"
    /\ is_rehashing(dict)
    /\ dlast.op = "insert"
    /\ Len(dict.back_table[1].slots) = 32
    /\ dict.back_table[1].cnt = 30

(***************************************************************************)
(* C37: while a rehash is in progress every slot of main with an index     *)
(* below the cursor is empty, so the entries still in main are in slots at *)
(* or after the cursor; and main's count never increases during a rehash   *)
(* (a call whose step does not complete the rehash leaves it open, with a  *)
(* count in main no greater than before).                                  *)
(***************************************************************************)
C37_SlotsBelowCursorEmpty ==
    /\ [](is_rehashing(dict) =>
            /\ dict.rehash_idx[1] <= Len(dict.main_table.slots)
            /\ \A i \in 1 .. dict.rehash_idx[1] : dict.main_table.slots[i] = <<>>)
    /\ [][(is_rehashing(dict)
             /\ is_rehashing(try_rehash_step(hasher, dict, 1).d)) =>
             /\ is_rehashing(dict')
             /\ dict'.main_table.cnt <= dict.main_table.cnt]_vars

\* the cursor has passed two slots and nodes are left in main behind it
C37_Witness ==
    /\ dstatus = "ok"
    /\ is_rehashing(dict)
    /\ dict.rehash_idx[1] = 2
    /\ dict.main_table.cnt > 0
    /\ dict.main_table.slots[4] # <<>>

(***************************************************************************)
(* Claims about the Connection and the server                              *)
(***************************************************************************)
\* complete well-formed frames of the protocol the peer may have written
CompleteFrames == {SimpleOk, NullBulk, <<":", "7", "\r", "\n">>}

HoldsFrame(buffer) ==
    \E f \in CompleteFrames :
        Len(buffer) >= Len(f) /\ SubSeq(buffer, 1, Len(f)) = f

\* C38: read_frame goes to the socket for more bytes only while the buffer
\* holds no complete frame (a buffered frame such as "+OK\r\n" is returned
\* at once), and it returns Ok(None) only when the peer has closed and the
\* buffer is empty.
C38_ReturnsBufferedFrame ==
    /\ conn.pc = "read" => ~HoldsFrame(conn.buffer)
    /\ (conn.pc = "returned" /\ HoldsFrame(conn.buffer)) => conn.ret = "Some"
    /\ conn.ret = "None" => (conn.closed /\ conn.buffer = <<>>)

GetAnswer(latest, key) ==
    IF latest[key] = None THEN [kind |-> "Null", val |-> <<>>]
    ELSE [kind |-> "Bulk", val |-> latest[key]]

\* C39: a task holds the db mutex only between its lock() and the end of the
\* Set / Get arm, so never at an await (read_frame, write_frame) and never
\* once the response is ready to be written; a SET or GET request has taken
\* the lock exactly once by then; a GET answers with the value of the latest
\* SET on its key whose lock section came before its own, or Null.
C39_LockAroundMapAccess ==
    \A t \in Tasks :
        /\ srv.pc[t] \in {"read_frame", "write_frame", "done"} => srv.lock # t
        /\ srv.lock = t => srv.pc[t] \in {"locked", "arm_end"}
        /\ (srv.pc[t] = "write_frame" /\ srv.req[t].op \in {"set", "get"})
              => srv.locks[t] = 1
        /\ (srv.pc[t] = "write_frame" /\ srv.req[t].op = "other")
              => srv.locks[t] = 0
        /\ (srv.pc[t] \in {"arm_end", "write_frame"} /\ srv.req[t].op = "get")
              => srv.response[t] = GetAnswer(srv.before[t], srv.req[t].key)

\* task 2 has read the value task 1 set over an older one, while task 1 is
\* still writing its response
C39_Witness ==
    /\ srv.pc[1] = "write_frame"
    /\ srv.req[1] = [op |-> "set", key |-> "a", value |-> "y"]
    /\ srv.before[1]["a"] = Some("x")
    /\ srv.pc[2] = "write_frame"
    /\ srv.req[2] = [op |-> "get", key |-> "a", value |-> ""]
    /\ srv.response[2] = [kind |-> "Bulk", val |-> <<"y">>]

(***************************************************************************)
(* C40: after a rehash step that does not complete the migration, the      *)
(* cursor is one past the last slot the step visited.                      *)
(***************************************************************************)
C40_CursorPastLastVisited ==
    [][(/\ is_rehashing(dict)
        /\ ~try_rehash_step(hasher, dict, 1).panic
        /\ is_rehashing(try_rehash_step(hasher, dict, 1).d)
        /\ dstatus' = "ok") =>
          dict'.rehash_idx = Some(StepLoop(dict).latest_idx + 1)]_vars

====
